---- MODULE Spec2Model ----
(***************************************************************************)
(* Model of the Qalib Node SDK: the HTTP client's error translation        *)
(* (Client._handleError and the error classes), the render operations      *)
(* (Renders.create, get, waitFor, createAndWait), the template operations   *)
(* (Templates.list, listAll), the constructors of Qalib and Client,        *)
(* Qalib.setMode, and concurrent waitFor calls on one client.  Termination  *)
(* of waitFor and of listAll is checked under SpecWait and                 *)
(* SpecListAnswered, which add weak fairness of the steps the runtime and  *)
(* the server take.                                                        *)
(*                                                                         *)
(* Encoding of JavaScript values.  Strings are TLA+ strings; the string    *)
(* "undefined" stands for the value undefined and "null" for null.         *)
(* Numeric options (interval, timeout) are integers in milliseconds, 0     *)
(* standing for both an omitted option and the number 0: the code reads    *)
(* them only through `x || default`, which treats the two alike.           *)
(* Objects are records with a tag field t ("object" or "undefined").       *)
(* Date.now() is the variable now, in milliseconds.                        *)
(***************************************************************************)
EXTENDS Integers, Sequences, FiniteSets, TLC

VARIABLES
    mode,        \* client.mode: the client's default mode
    setModes,    \* number of setMode calls made so far
    now,         \* Date.now()
    pc,          \* position of the running call
    op,          \* the public operation that was called
    args,        \* the arguments it was called with
    renderId,    \* waitFor: renderId
    interval,    \* waitFor: const interval
    timeout,     \* waitFor: const timeout
    startTime,   \* waitFor: const startTime
    render,      \* waitFor / createAndWait: const render
    result,      \* how the call completed: returned value or thrown error
    posts,       \* POST /render requests sent, in order
    queries,     \* number of GET /render/{id} requests sent
    sleeps,      \* number of interval delays the call has slept
    delivered,   \* the data of the last 2xx response body the server sent
    terminalAt,  \* index of the first query answered completed/failed, 0 if none
    onlyPending, \* every status query so far was answered `pending`
    lastRtt,     \* round-trip time of the last request
    respondedAt, \* Date.now() when the last response or rejection arrived
    rejection,   \* the axios rejection handed to _handleError last
    setModeThrew,\* whether the last setMode call threw
    setModeArg,  \* the argument of the last setMode call
    slow,        \* number of responses so far that took more than 0 ms
    client,      \* the Client object: apiKey, baseURL, timeout; NoClient if none
    responseBody,\* the body of the last 2xx response (`response` in Renders)
    templates,   \* listAll: const templates
    offset,      \* listAll: let offset
    maxResults,  \* listAll: const maxResults, 0 standing for Infinity
    lists,       \* GET /templates requests sent, in order
    catalogue,   \* number of templates the server holds for this account
    calls        \* the concurrent waitFor calls of SpecConcurrent, by caller

vars == <<mode, setModes, now, pc, op, args, renderId, interval, timeout,
          startTime, render, result, posts, queries, sleeps, delivered,
          terminalAt, onlyPending, lastRtt, respondedAt, rejection, setModeThrew, slow,
          setModeArg, client, responseBody, templates, offset, maxResults, lists,
          catalogue, calls>>

\* The variables of listAll
listVars == <<templates, offset, maxResults, lists, catalogue>>

Undefined == "undefined"

\* JavaScript truthiness of a string-encoded value
Truthy(v) == v \notin {"undefined", "null", ""}

----------------------------------------------------------------------------
(* Bounds of the model *)

MaxRttSteps == 1         \* round-trip times are 0..MaxRttSteps half seconds
MaxTimeoutSteps == 5     \* the longest explicit timeout, in seconds
MaxIntervalSteps == 2    \* explicit intervals are 1..MaxIntervalSteps seconds
MaxSlowResponses == 2    \* responses of one behaviour that take more than 0 ms
MaxSetModes == 2         \* setMode calls in one behaviour
MaxFullPages == 2        \* the largest catalogue fills this many pages of listAll

Rtts == {500 * k : k \in 0..MaxRttSteps}
IntervalOptions == {0} \cup {1000 * k : k \in 1..MaxIntervalSteps}
TimeoutOptions == {0, 1000, 2500, 1000 * MaxTimeoutSteps}

----------------------------------------------------------------------------
(* Error classes *)

NullDetails == [t |-> "null"]

QalibError(name, message, statusCode, code, details) ==
    [name |-> name, message |-> message, statusCode |-> statusCode,
     code |-> code, details |-> details]

AuthenticationError(message, details) ==
    QalibError("AuthenticationError",
               IF message = Undefined THEN "Invalid or missing API key" ELSE message,
               401, "AUTHENTICATION_ERROR", details)

ValidationError(message, details) ==
    QalibError("ValidationError",
               IF message = Undefined THEN "Invalid request data" ELSE message,
               400, "VALIDATION_ERROR", details)

InsufficientCreditsError(message, details) ==
    QalibError("InsufficientCreditsError",
               IF message = Undefined THEN "Insufficient credits" ELSE message,
               402, "INSUFFICIENT_CREDITS", details)

NotFoundError(message, details) ==
    QalibError("NotFoundError",
               IF message = Undefined THEN "Resource not found" ELSE message,
               404, "NOT_FOUND", details)

ForbiddenError(message, details) ==
    QalibError("ForbiddenError",
               IF message = Undefined THEN "Access denied" ELSE message,
               403, "FORBIDDEN", details)

RateLimitError(message, details) ==
    QalibError("RateLimitError",
               IF message = Undefined THEN "Rate limit exceeded" ELSE message,
               429, "RATE_LIMIT_EXCEEDED", details)

APIError(message, statusCode, code, details) ==
    QalibError("APIError",
               IF message = Undefined THEN "API request failed" ELSE message,
               statusCode,
               IF code = Undefined THEN "API_ERROR" ELSE code, details)

RenderError(message, details) ==
    QalibError("RenderError",
               IF message = Undefined THEN "Render operation failed" ELSE message,
               500, "RENDER_ERROR", details)

\* Mutant of TimeoutError: the code of the class changed
TimeoutError_OtherCode(message, details) ==
    QalibError("TimeoutError",
               IF message = Undefined THEN "Request timeout" ELSE message,
               408, "REQUEST_TIMEOUT", details)

TimeoutError(message, details) ==
    QalibError("TimeoutError",
               IF message = Undefined THEN "Request timeout" ELSE message,
               408, "TIMEOUT_ERROR", details)

\* `new Error(message)` and the TypeError of a property read on undefined:
\* plain JavaScript errors, with no statusCode, code or details
PlainError(name, message) ==
    [name |-> name, message |-> message, statusCode |-> 0,
     code |-> Undefined, details |-> NullDetails]

----------------------------------------------------------------------------
(* Axios rejections and Client._handleError *)

\* Decoded response bodies of failed responses (error.response.data).  A body
\* that is not an object (undefined, null, a string) has no properties: every
\* `data?.x` reads undefined.  details is undefined, null, a string or an object.
ErrorBody(t, message, error, code, details, creditBalance, requiredCredits) ==
    [t |-> t, message |-> message, error |-> error, code |-> code,
     details |-> details, creditBalance |-> creditBalance,
     requiredCredits |-> requiredCredits]

NonObjectBody(t) ==
    ErrorBody(t, Undefined, Undefined, Undefined, [t |-> "undefined"],
              Undefined, Undefined)

DetailsValues ==
    {[t |-> "undefined"], [t |-> "null"], [t |-> "string"],
     [t |-> "object", field |-> "template"],
     [t |-> "object", creditBalance |-> "9"],
     [t |-> "object", requiredCredits |-> "8"]}

ObjectBodies ==
    {ErrorBody("object", m, e, c, d, cb, rc) :
        m \in {Undefined, "", "Bad input"}, e \in {Undefined, "bad_request"},
        c \in {Undefined, "E_SERVER", "VALIDATION_ERROR"}, d \in DetailsValues,
        cb \in {Undefined, "3"}, rc \in {Undefined, "5"}}

ErrorBodies ==
    {NonObjectBody("undefined"), NonObjectBody("null"), NonObjectBody("string")}
        \cup ObjectBodies

ErrorStatuses == {400, 401, 402, 403, 404, 418, 429, 500, 503}

NoResponse == [t |-> "undefined"]

\* What axios rejects with.  A transport failure has no response and a reason
\* code; a response outside 2xx is rejected by axios' settle with the response
\* attached and the code ERR_BAD_REQUEST (4xx) or ERR_BAD_RESPONSE (5xx).
AxiosError(code, message, response) ==
    [code |-> code, message |-> message, response |-> response]

Response(status, data) == [t |-> "object", status |-> status, data |-> data]

TransportFailures ==
    {AxiosError(c, m, NoResponse) :
        c \in {"ECONNABORTED", "ECONNREFUSED", "ERR_NETWORK", Undefined},
        m \in {"", "socket hang up", "timeout of 30000ms exceeded"}}

SettleCode(status) == IF status >= 500 THEN "ERR_BAD_RESPONSE" ELSE "ERR_BAD_REQUEST"

ResponseFailures ==
    {AxiosError(SettleCode(s), "Request failed", Response(s, b)) :
        s \in ErrorStatuses, b \in ErrorBodies}

Rejections == TransportFailures \cup ResponseFailures

NoRejection == AxiosError(Undefined, Undefined, NoResponse)

\* const message = data?.message || data?.error || 'Unknown error occurred'
BodyMessage(data) ==
    IF Truthy(data.message) THEN data.message
    ELSE IF Truthy(data.error) THEN data.error
    ELSE "Unknown error occurred"

\* Mutant of BodyCode: the code of the body not read
BodyCode_Ignored(data) == "UNKNOWN_ERROR"

\* const code = data?.code || 'UNKNOWN_ERROR'
BodyCode(data) == IF Truthy(data.code) THEN data.code ELSE "UNKNOWN_ERROR"

\* const details = data?.details || null   (undefined and null are falsy; the
\* strings and objects of DetailsValues are truthy)
BodyDetails(data) ==
    IF data.details.t \in {"undefined", "null"} THEN NullDetails ELSE data.details

\* The value of property `key` in { key: value, ...details }: an entry of
\* details of that name comes later in the literal and replaces the value
SpreadOver(details, key, value) ==
    IF details.t = "object" /\ key \in DOMAIN details THEN details[key] ELSE value

\* Mutant of CreditDetails: details spread first, { ...details, creditBalance:
\* data?.creditBalance, requiredCredits: data?.requiredCredits }
CreditDetails_SpreadFirst(data, details) ==
    [t |-> "object",
     creditBalance |-> data.creditBalance,
     requiredCredits |-> data.requiredCredits,
     rest |-> details]

\* { creditBalance: data?.creditBalance, requiredCredits: data?.requiredCredits,
\*   ...details }: the entries of details come last and win over the two fields
CreditDetails(data, details) ==
    [t |-> "object",
     creditBalance |-> SpreadOver(details, "creditBalance", data.creditBalance),
     requiredCredits |-> SpreadOver(details, "requiredCredits", data.requiredCredits),
     rest |-> details]

\* Mutant of StatusError: the 403 and 404 cases exchanged
StatusError_Swapped(status, message, code, details, data) ==
    CASE status = 400 -> ValidationError(message, details)
      [] status = 401 -> AuthenticationError(message, details)
      [] status = 402 -> InsufficientCreditsError(message, CreditDetails(data, details))
      [] status = 403 -> NotFoundError(message, details)
      [] status = 404 -> ForbiddenError(message, details)
      [] status = 429 -> RateLimitError(message, details)
      [] OTHER -> APIError(message, status, code, details)

\* Mutant of StatusError: the default case with the constructor's default status
StatusError_DefaultStatus(status, message, code, details, data) ==
    CASE status = 400 -> ValidationError(message, details)
      [] status = 401 -> AuthenticationError(message, details)
      [] status = 402 -> InsufficientCreditsError(message, CreditDetails(data, details))
      [] status = 403 -> ForbiddenError(message, details)
      [] status = 404 -> NotFoundError(message, details)
      [] status = 429 -> RateLimitError(message, details)
      [] OTHER -> APIError(message, 500, code, details)

\* switch (status) { case 400: ... default: ... }
StatusError(status, message, code, details, data) ==
    CASE status = 400 -> ValidationError(message, details)
      [] status = 401 -> AuthenticationError(message, details)
      [] status = 402 -> InsufficientCreditsError(message, CreditDetails(data, details))
      [] status = 403 -> ForbiddenError(message, details)
      [] status = 404 -> NotFoundError(message, details)
      [] status = 429 -> RateLimitError(message, details)
      [] OTHER -> APIError(message, status, code, details)

\* Mutant of HandleError: the network error built without its code, so that
\* the constructor's default code applies
HandleError_NoNetworkCode(error) ==
    IF error.code = "ECONNABORTED" THEN TimeoutError("Request timeout", NullDetails)
    ELSE IF error.response.t = "undefined"
    THEN APIError(IF Truthy(error.message) THEN error.message
                  ELSE "Network error occurred",
                  500, Undefined, NullDetails)
    ELSE LET data == error.response.data
         IN StatusError(error.response.status, BodyMessage(data), BodyCode(data),
                        BodyDetails(data), data)

\* Mutant of HandleError: the body read with data.message instead of
\* data?.message, a TypeError when the body is undefined or null
HandleError_PlainRead(error) ==
    IF error.code = "ECONNABORTED" THEN TimeoutError("Request timeout", NullDetails)
    ELSE IF error.response.t = "undefined"
    THEN APIError(IF Truthy(error.message) THEN error.message
                  ELSE "Network error occurred",
                  500, "NETWORK_ERROR", NullDetails)
    ELSE LET data == error.response.data
         IN IF data.t \in {"undefined", "null"}
            THEN PlainError("TypeError",
                            "Cannot read properties of undefined (reading 'message')")
            ELSE StatusError(error.response.status, BodyMessage(data), BodyCode(data),
                             BodyDetails(data), data)

\* Client._handleError(error): the error it throws
HandleError(error) ==
    IF error.code = "ECONNABORTED" THEN TimeoutError("Request timeout", NullDetails)
    ELSE IF error.response.t = "undefined"
    THEN APIError(IF Truthy(error.message) THEN error.message
                  ELSE "Network error occurred",
                  500, "NETWORK_ERROR", NullDetails)
    ELSE LET data == error.response.data
         IN StatusError(error.response.status, BodyMessage(data), BodyCode(data),
                        BodyDetails(data), data)

----------------------------------------------------------------------------
(* Values exchanged with the service *)

\* A render object (Job snapshot); absent fields read undefined
Snapshot(id, status, error_message, image_url) ==
    [t |-> "object", id |-> id, status |-> status,
     error_message |-> error_message, image_url |-> image_url]

\* The value undefined where a render object is expected
NoData ==
    [t |-> "undefined", id |-> Undefined, status |-> Undefined,
     error_message |-> Undefined, image_url |-> Undefined]

\* 2xx bodies of GET /render/{id}: the envelope's data is a render object, with
\* or without the fields of a result or of a failure, or the envelope has no data
GetBodies ==
    {[data |-> Snapshot("r1", st, em, Undefined)] :
        st \in {"pending", "processing", "failed"}, em \in {Undefined, "out of memory"}}
    \cup {[data |-> Snapshot("r1", "pending", Undefined, "https://cdn/r1.png")]}
    \cup {[data |-> Snapshot("r1", "completed", Undefined, u)] :
        u \in {Undefined, "https://cdn/r1.png"}}
    \cup {[data |-> NoData]}

\* 2xx bodies of POST /render
PostBodies ==
    {[data |-> Snapshot("r1", "pending", Undefined, Undefined)],
     [data |-> Snapshot(Undefined, "pending", Undefined, Undefined)],
     [data |-> Snapshot("r1", "completed", Undefined, "https://cdn/r1.png")],
     [data |-> NoData]}

\* The rejections the requests of a call meet: every transport failure, and
\* one failed response per status with a representative body
RepresentativeBody ==
    ErrorBody("object", "Bad input", Undefined, "E_SERVER",
              [t |-> "object", field |-> "template"], "3", "5")

CallRejections ==
    {AxiosError("ECONNABORTED", "timeout of 30000ms exceeded", NoResponse),
     AxiosError("ECONNREFUSED", "", NoResponse),
     AxiosError(SettleCode(404), "Request failed", Response(404, RepresentativeBody)),
     AxiosError(SettleCode(402), "Request failed", Response(402, RepresentativeBody)),
     AxiosError(SettleCode(503), "Request failed", Response(503, NonObjectBody("string")))}

\* A variable of a render request; absent fields read undefined
Variable(name, text, image_url, rating) ==
    [name |-> name, text |-> text, image_url |-> image_url, rating |-> rating]

\* The `variables` argument: an array of variables, or a value that is no array
ArrayOf(items) == [isArray |-> TRUE, items |-> items]
NotAnArray == [isArray |-> FALSE, items |-> <<>>]

\* Where the body of a 2xx response is expected and none was received
NoBody == [data |-> NoData]

\* No Client object exists
NoClient == [t |-> "undefined", apiKey |-> Undefined, baseURL |-> Undefined, timeout |-> 0]

\* The fields of a Client object other than mode
ClientFields(apiKey, baseURL, requestTimeout) ==
    [t |-> "object", apiKey |-> apiKey, baseURL |-> baseURL, timeout |-> requestTimeout]

DefaultBaseURL == "https://api.getqalib.com/v1"
DefaultRequestTimeout == 30000

DefaultClient == ClientFields("qk_live_abc", DefaultBaseURL, DefaultRequestTimeout)

TemplateIds == {"", "tmp_abc123"}
RenderIds == {"", "r1"}
ModeOptions == {Undefined, "sync", "async"}
Modes == {"sync", "async"}

Options(m, i, t) == [mode |-> m, interval |-> i, timeout |-> t]

\* The config object handed to new Qalib(config); absent fields read undefined
Config(apiKey, m, baseURL, requestTimeout) ==
    [apiKey |-> apiKey, mode |-> m, baseURL |-> baseURL, timeout |-> requestTimeout]

NoConfig == Config(Undefined, Undefined, Undefined, 0)

NoArgs ==
    [templateId |-> Undefined, variables |-> NotAnArray, renderId |-> Undefined,
     options |-> Options(Undefined, 0, 0), config |-> NoConfig, maxResults |-> 0]

NoError == PlainError("none", "")
NoResult == [kind |-> "none", value |-> NoData, error |-> NoError]
Returned(v) == [kind |-> "return", value |-> v, error |-> NoError]
Thrown(e) == [kind |-> "throw", value |-> NoData, error |-> e]

----------------------------------------------------------------------------
(* Renders: the code's computations *)

DefaultInterval == 1000
DefaultTimeout == 60000

\* const interval = options.interval || 1000
WaitInterval(options) ==
    IF options.interval # 0 THEN options.interval ELSE DefaultInterval

\* const timeout = options.timeout || 60000
WaitTimeout(options) ==
    IF options.timeout # 0 THEN options.timeout ELSE DefaultTimeout

\* Mutants of TimedOut: the comparison inverted; one more interval allowed
TimedOut_Inverted(elapsed, budget) == elapsed < budget
TimedOut_ExtraInterval(elapsed, budget) == elapsed > budget + interval

\* Mutant of TimedOut: the deadline check looks one interval ahead
TimedOut_Ahead(elapsed, budget) == elapsed + interval > budget

\* if (Date.now() - startTime > timeout)
TimedOut(elapsed, budget) == elapsed > budget

\* Mutant of TimeoutMessage: the default budget named whatever the budget is
TimeoutMessage_Default(budget) ==
    "Render did not complete within " \o ToString(DefaultTimeout) \o "ms"

\* `Render did not complete within ${timeout}ms`
TimeoutMessage(budget) ==
    "Render did not complete within " \o ToString(budget) \o "ms"

\* Mutants of PollDecision: the completed check missing; the failed check missing
PollDecision_NoCompleted(r) ==
    IF r.t = "undefined" THEN "TypeError"
    ELSE IF r.status = "failed" THEN "throw"
    ELSE "sleep"

PollDecision_NoFailed(r) ==
    IF r.t = "undefined" THEN "TypeError"
    ELSE IF r.status = "completed" THEN "return"
    ELSE "sleep"

\* Mutant of PollDecision: a result or a failure message in the render object
\* taken for a terminal status
PollDecision_PayloadDecides(r) ==
    IF r.t = "undefined" THEN "TypeError"
    ELSE IF r.status = "completed" \/ Truthy(r.image_url) THEN "return"
    ELSE IF r.status = "failed" \/ Truthy(r.error_message) THEN "throw"
    ELSE "sleep"

\* What waitFor does with the render object a query returned
PollDecision(r) ==
    IF r.t = "undefined" THEN "TypeError"
    ELSE IF r.status = "completed" THEN "return"
    ELSE IF r.status = "failed" THEN "throw"
    ELSE "sleep"

\* Mutant of RenderFailed: the details without the render object
RenderFailed_IdOnly(id, r) ==
    RenderError(IF Truthy(r.error_message) THEN r.error_message ELSE "Render failed",
                [t |-> "object", renderId |-> id, render |-> NoData])

\* new RenderError(render.error_message || 'Render failed', { renderId, render })
RenderFailed(id, r) ==
    RenderError(IF Truthy(r.error_message) THEN r.error_message ELSE "Render failed",
                [t |-> "object", renderId |-> id, render |-> r])

\* Mutant of ValidateVariable: the message of a variable without a value
\* property does not say which variable
ValidateVariable_Unnamed(variable) ==
    IF ~Truthy(variable.name) THEN "Each variable must have a name property"
    ELSE IF /\ ~Truthy(variable.text)
            /\ ~Truthy(variable.image_url)
            /\ variable.rating = Undefined
         THEN "Each variable must have either text, image_url, or rating property"
    ELSE "ok"

\* Mutant of ValidateVariable: rating not counted as a value property
ValidateVariable_NoRating(variable) ==
    IF ~Truthy(variable.name) THEN "Each variable must have a name property"
    ELSE IF ~Truthy(variable.text) /\ ~Truthy(variable.image_url)
         THEN "Variable \"" \o variable.name
                  \o "\" must have either text, image_url, or rating property"
    ELSE "ok"

\* The body of the loop over the variables: the message of the precondition
\* that fails on `variable`, "ok" if none
\*   if (!variable.name) throw ...
\*   if (!variable.text && !variable.image_url && variable.rating === undefined)
\*     throw ...
ValidateVariable(variable) ==
    IF ~Truthy(variable.name) THEN "Each variable must have a name property"
    ELSE IF /\ ~Truthy(variable.text)
            /\ ~Truthy(variable.image_url)
            /\ variable.rating = Undefined
         THEN "Variable \"" \o variable.name
                  \o "\" must have either text, image_url, or rating property"
    ELSE "ok"

\* for (const variable of variables): the first failure on items[i..], "ok" if
\* none
RECURSIVE ValidateVariables(_, _)
ValidateVariables(items, i) ==
    IF i > Len(items) THEN "ok"
    ELSE IF ValidateVariable(items[i]) # "ok" THEN ValidateVariable(items[i])
    ELSE ValidateVariables(items, i + 1)

ValidateCreate(templateId, variables) ==
    IF ~Truthy(templateId) THEN "Template ID is required"
    ELSE IF ~variables.isArray \/ Len(variables.items) = 0
         THEN "Variables must be a non-empty array"
    ELSE ValidateVariables(variables.items, 1)

\* Mutant of EffectiveMode: the client's default before the override
EffectiveMode_DefaultFirst(options, clientMode) ==
    IF Truthy(clientMode) THEN clientMode ELSE options.mode

\* const mode = options.mode || this.client.mode
EffectiveMode(options, clientMode) ==
    IF Truthy(options.mode) THEN options.mode ELSE clientMode

\* const isSync = mode === 'sync'; if (isSync) config.headers = { 'X-Sync': 'true' }
RequestConfig(effectiveMode) ==
    IF effectiveMode = "sync" THEN [xSync |-> "true"] ELSE [xSync |-> Undefined]

\* Mutant of CreateOptions: the caller's mode kept
CreateOptions_KeepMode(options) == options

\* const createOptions = { ...options, mode: 'async' }
CreateOptions(options) == [options EXCEPT !.mode = "async"]

\* Mutant of WaitOptions: the timeout not passed on
WaitOptions_NoTimeout(options) == Options(Undefined, options.interval, 0)

\* const waitOptions = { interval: options.interval, timeout: options.timeout }
WaitOptions(options) ==
    Options(Undefined, options.interval, options.timeout)

\* The POST /render request create sends
PostRender(templateId, variables, config) ==
    [path |-> "/render", template |-> templateId, variables |-> variables,
     xSync |-> config.xSync]

----------------------------------------------------------------------------
(* The operations *)

\* The client after construction, no call made yet
\* String.prototype.startsWith
StartsWith(s, prefix) ==
    Len(s) >= Len(prefix) /\ SubSeq(s, 1, Len(prefix)) = prefix

\* How a constructor ends: it throws e, or the object exists with these fields
ConstructorThrew(e) ==
    [kind |-> "throw", error |-> e, fields |-> NoClient, mode |-> Undefined]
ConstructorMade(fields, m) ==
    [kind |-> "object", error |-> NoError, fields |-> fields, mode |-> m]

\* new Client(config)
ClientConstructor(config) ==
    IF ~Truthy(config.apiKey)
    THEN ConstructorThrew(AuthenticationError("API key is required", NullDetails))
    ELSE IF ~StartsWith(config.apiKey, "qk_")
    THEN ConstructorThrew(AuthenticationError(
            "Invalid API key format. API key must start with \"qk_\"", NullDetails))
    ELSE ConstructorMade(
            ClientFields(config.apiKey,
                         IF Truthy(config.baseURL) THEN config.baseURL ELSE DefaultBaseURL,
                         IF config.timeout # 0 THEN config.timeout
                         ELSE DefaultRequestTimeout),
            IF Truthy(config.mode) THEN config.mode ELSE "async")

\* Mutant of QalibConstructor: the mode not validated
QalibConstructor_AnyMode(config) ==
    IF ~Truthy(config.apiKey)
    THEN ConstructorThrew(PlainError("Error", "apiKey is required"))
    ELSE ClientConstructor(
            Config(config.apiKey,
                   IF Truthy(config.mode) THEN config.mode ELSE "async",
                   config.baseURL, config.timeout))

\* new Qalib(config)
QalibConstructor(config) ==
    IF ~Truthy(config.apiKey)
    THEN ConstructorThrew(PlainError("Error", "apiKey is required"))
    ELSE IF Truthy(config.mode) /\ config.mode \notin {"sync", "async"}
    THEN ConstructorThrew(PlainError("Error", "mode must be either \"sync\" or \"async\""))
    ELSE ClientConstructor(
            Config(config.apiKey,
                   IF Truthy(config.mode) THEN config.mode ELSE "async",
                   config.baseURL, config.timeout))

\* The state before any call: nothing requested, nothing received
Fresh ==
    /\ setModes = 0
    /\ setModeThrew = FALSE
    /\ setModeArg = Undefined
    /\ now = 0
    /\ op = "none"
    /\ args = NoArgs
    /\ renderId = Undefined
    /\ interval = 0
    /\ timeout = 0
    /\ startTime = 0
    /\ render = NoData
    /\ result = NoResult
    /\ posts = <<>>
    /\ queries = 0
    /\ sleeps = 0
    /\ delivered = NoData
    /\ terminalAt = 0
    /\ onlyPending = TRUE
    /\ lastRtt = 0
    /\ respondedAt = 0
    /\ slow = 0
    /\ responseBody = NoBody
    /\ templates = <<>>
    /\ offset = 0
    /\ maxResults = 0
    /\ lists = <<>>
    /\ catalogue = 0

\* A client constructed with a well-formed key and either mode
Constructed ==
    /\ mode \in Modes
    /\ client = DefaultClient
    /\ Fresh

Init ==
    /\ Constructed
    /\ calls = <<>>
    /\ pc = "idle"
    /\ rejection = NoRejection

\* Before new Qalib(config): no client exists
InitNew ==
    /\ calls = <<>>
    /\ mode = Undefined
    /\ client = NoClient
    /\ Fresh
    /\ pc = "new"
    /\ rejection = NoRejection

\* new Qalib(config): the constructor throws and no object exists, or the
\* client exists and is idle
Construct(config) ==
    /\ pc = "new"
    /\ op' = "new"
    /\ args' = [NoArgs EXCEPT !.config = config]
    /\ LET made == QalibConstructor(config)
       IN  IF made.kind = "throw"
           THEN /\ result' = Thrown(made.error)
                /\ pc' = "dead"
                /\ UNCHANGED <<mode, client>>
           ELSE /\ client' = made.fields
                /\ mode' = made.mode
                /\ pc' = "idle"
                /\ UNCHANGED result
    /\ UNCHANGED <<setModes, setModeThrew, setModeArg, slow, now, renderId, interval,
                   timeout, startTime, render, posts, queries, sleeps, delivered,
                   terminalAt, onlyPending, lastRtt, respondedAt, rejection,
                   responseBody, listVars, calls>>

\* The call completes by throwing e / by returning v
Throw(e) == result' = Thrown(e) /\ pc' = "done"
Return(v) == result' = Returned(v) /\ pc' = "done"

\* The entry of waitFor (lines 108-110), reading the clock at `clock`
EnterWaitFor(id, options, clock) ==
    /\ renderId' = id
    /\ interval' = WaitInterval(options)
    /\ timeout' = WaitTimeout(options)
    /\ startTime' = clock
    /\ pc' = "check"

\* Mutant of EnterCreate: the request is sent without validating the inputs
EnterCreate_NoValidation(templateId, variables, options) ==
    /\ posts' = Append(posts,
            PostRender(templateId, variables,
                       RequestConfig(EffectiveMode(options, mode))))
    /\ pc' = "post"
    /\ UNCHANGED result

\* The body of create up to the await of the POST (lines 30-68)
EnterCreate(templateId, variables, options) ==
    LET failure == ValidateCreate(templateId, variables)
    IN  IF failure # "ok"
        THEN /\ Throw(PlainError("Error", failure))
             /\ UNCHANGED posts
        ELSE /\ posts' = Append(posts,
                    PostRender(templateId, variables,
                               RequestConfig(EffectiveMode(options, mode))))
             /\ pc' = "post"
             /\ UNCHANGED result

\* renders.create(templateId, variables, options)
CallCreate(templateId, variables, options) ==
    /\ pc = "idle"
    /\ op' = "create"
    /\ args' = [NoArgs EXCEPT !.templateId = templateId, !.variables = variables,
                              !.options = options]
    /\ EnterCreate(templateId, variables, options)
    /\ UNCHANGED <<mode, setModes, setModeThrew, slow, now, renderId, interval, timeout,
                   startTime, render, queries, sleeps, delivered, terminalAt,
                   onlyPending, lastRtt, respondedAt, rejection>>
    /\ UNCHANGED <<setModeArg, client, responseBody, listVars, calls>>

\* Mutant of CallCreateAndWait: async forced by setting the client's mode
CallCreateAndWait_SetsAsync(templateId, variables, options) ==
    /\ pc = "idle"
    /\ op' = "createAndWait"
    /\ args' = [NoArgs EXCEPT !.templateId = templateId, !.variables = variables,
                              !.options = options]
    /\ EnterCreate(templateId, variables, options)
    /\ mode' = "async"
    /\ UNCHANGED <<setModes, setModeThrew, slow, now, renderId, interval, timeout,
                   startTime, render, queries, sleeps, delivered, terminalAt,
                   onlyPending, lastRtt, respondedAt, rejection>>
    /\ UNCHANGED <<setModeArg, client, responseBody, listVars, calls>>

\* renders.createAndWait(templateId, variables, options), up to the POST
CallCreateAndWait(templateId, variables, options) ==
    /\ pc = "idle"
    /\ op' = "createAndWait"
    /\ args' = [NoArgs EXCEPT !.templateId = templateId, !.variables = variables,
                              !.options = options]
    /\ EnterCreate(templateId, variables, CreateOptions(options))
    /\ UNCHANGED <<mode, setModes, setModeThrew, slow, now, renderId, interval, timeout,
                   startTime, render, queries, sleeps, delivered, terminalAt,
                   onlyPending, lastRtt, respondedAt, rejection>>
    /\ UNCHANGED <<setModeArg, client, responseBody, listVars, calls>>

\* renders.waitFor(renderId, options), up to the loop
CallWaitFor(id, options) ==
    /\ pc = "idle"
    /\ op' = "waitFor"
    /\ args' = [NoArgs EXCEPT !.renderId = id, !.options = options]
    /\ EnterWaitFor(id, options, now)
    /\ UNCHANGED <<mode, setModes, setModeThrew, slow, now, render, result, posts, queries,
                   sleeps, delivered, terminalAt, onlyPending, lastRtt, respondedAt,
                   rejection>>
    /\ UNCHANGED <<setModeArg, client, responseBody, listVars, calls>>

\* renders.get(renderId), called directly: up to the await of the GET
CallGet(id) ==
    /\ pc = "idle"
    /\ op' = "get"
    /\ args' = [NoArgs EXCEPT !.renderId = id]
    /\ renderId' = id
    /\ IF ~Truthy(id)
       THEN Throw(PlainError("Error", "Render ID is required")) /\ UNCHANGED queries
       ELSE queries' = queries + 1 /\ pc' = "get" /\ UNCHANGED result
    /\ UNCHANGED <<mode, setModes, setModeThrew, slow, now, interval, timeout, startTime,
                   render, posts, sleeps, delivered, terminalAt, onlyPending, lastRtt,
                   respondedAt, rejection>>
    /\ UNCHANGED <<setModeArg, client, responseBody, listVars, calls>>

\* The top of waitFor's loop: the deadline check, then get(renderId) up to the
\* await of the GET (lines 112-119, 82-87)
LoopTop ==
    /\ pc = "check"
    /\ IF TimedOut(now - startTime, timeout)
       THEN Throw(TimeoutError(TimeoutMessage(timeout), NullDetails))
            /\ UNCHANGED queries
       ELSE IF ~Truthy(renderId)
       THEN Throw(PlainError("Error", "Render ID is required")) /\ UNCHANGED queries
       ELSE queries' = queries + 1 /\ pc' = "get" /\ UNCHANGED result
    /\ UNCHANGED <<mode, setModes, setModeThrew, slow, now, op, args, renderId, interval,
                   timeout, startTime, render, posts, sleeps, delivered, terminalAt,
                   onlyPending, lastRtt, respondedAt, rejection>>
    /\ UNCHANGED <<setModeArg, client, responseBody, listVars, calls>>

\* A response or rejection arrives d ms after its request was sent
Arrive(d) ==
    /\ d > 0 => slow < MaxSlowResponses
    /\ slow' = IF d > 0 THEN slow + 1 ELSE slow
    /\ now' = now + d
    /\ lastRtt' = d
    /\ respondedAt' = now + d

\* Mutant of GetSucceeds: get returns the body, not its data
GetSucceeds_ReturnsBody(d, body) ==
    /\ pc = "get"
    /\ Arrive(d)
    /\ responseBody' = body
    /\ delivered' = body.data
    /\ terminalAt' = IF terminalAt = 0 /\ body.data.status \in {"completed", "failed"}
                     THEN queries ELSE terminalAt
    /\ onlyPending' = (onlyPending /\ body.data.status = "pending")
    /\ render' = body.data
    /\ IF op = "get" THEN Return(body)
       ELSE CASE PollDecision(body.data) = "TypeError" ->
                    Throw(PlainError("TypeError",
                                     "Cannot read properties of undefined (reading 'status')"))
              [] PollDecision(body.data) = "return" -> Return(body.data)
              [] PollDecision(body.data) = "throw" ->
                    Throw(RenderFailed(renderId, body.data))
              [] OTHER -> pc' = "sleep" /\ UNCHANGED result
    /\ UNCHANGED <<mode, setModes, setModeThrew, op, args, renderId, interval, timeout,
                   startTime, posts, queries, sleeps, rejection>>
    /\ UNCHANGED <<setModeArg, client, listVars, calls>>

\* The GET is answered 2xx with `body` after d ms: get returns body.data
\* (lines 87-88); waitFor examines it (lines 119-135)
GetSucceeds(d, body) ==
    /\ pc = "get"
    /\ Arrive(d)
    /\ responseBody' = body
    /\ delivered' = body.data
    /\ terminalAt' = IF terminalAt = 0 /\ body.data.status \in {"completed", "failed"}
                     THEN queries ELSE terminalAt
    /\ onlyPending' = (onlyPending /\ body.data.status = "pending")
    /\ render' = body.data
    /\ IF op = "get" THEN Return(body.data)
       ELSE CASE PollDecision(body.data) = "TypeError" ->
                    Throw(PlainError("TypeError",
                                     "Cannot read properties of undefined (reading 'status')"))
              [] PollDecision(body.data) = "return" -> Return(body.data)
              [] PollDecision(body.data) = "throw" ->
                    Throw(RenderFailed(renderId, body.data))
              [] OTHER -> pc' = "sleep" /\ UNCHANGED result
    /\ UNCHANGED <<mode, setModes, setModeThrew, op, args, renderId, interval, timeout,
                   startTime, posts, queries, sleeps, rejection>>
    /\ UNCHANGED <<setModeArg, client, listVars, calls>>

\* Mutant of GetFails: the rejection caught and the query retried after the interval
GetFails_Retry(d, e) ==
    /\ pc = "get"
    /\ Arrive(d)
    /\ rejection' = e
    /\ pc' = "sleep"
    /\ UNCHANGED <<mode, setModes, setModeThrew, op, args, renderId, interval, timeout,
                   startTime, render, result, posts, queries, sleeps, delivered,
                   terminalAt, onlyPending>>
    /\ UNCHANGED <<setModeArg, client, responseBody, listVars, calls>>

\* The GET is rejected with e after d ms: the interceptor's _handleError throws,
\* and neither get nor waitFor catches
GetFails(d, e) ==
    /\ pc = "get"
    /\ Arrive(d)
    /\ rejection' = e
    /\ Throw(HandleError(e))
    /\ UNCHANGED <<mode, setModes, setModeThrew, op, args, renderId, interval, timeout,
                   startTime, render, posts, queries, sleeps, delivered, terminalAt,
                   onlyPending>>
    /\ UNCHANGED <<setModeArg, client, responseBody, listVars, calls>>

\* Mutant of Sleep: the delay one millisecond short of the interval
Sleep_Short ==
    /\ pc = "sleep"
    /\ now' = now + interval - 1
    /\ sleeps' = sleeps + 1
    /\ pc' = "check"
    /\ UNCHANGED <<mode, setModes, setModeThrew, slow, op, args, renderId, interval,
                   timeout, startTime, render, result, posts, queries, delivered,
                   terminalAt, onlyPending, lastRtt, respondedAt, rejection>>
    /\ UNCHANGED <<setModeArg, client, responseBody, listVars, calls>>

\* Mutant of Sleep: the timer never fires, the call stays suspended
Sleep_NeverWakes ==
    /\ pc = "sleep"
    /\ UNCHANGED vars

\* Mutant of Sleep: the delay twice the interval
Sleep_Double ==
    /\ pc = "sleep"
    /\ now' = now + 2 * interval
    /\ sleeps' = sleeps + 1
    /\ pc' = "check"
    /\ UNCHANGED <<mode, setModes, setModeThrew, slow, op, args, renderId, interval,
                   timeout, startTime, render, result, posts, queries, delivered,
                   terminalAt, onlyPending, lastRtt, respondedAt, rejection>>
    /\ UNCHANGED <<setModeArg, client, responseBody, listVars, calls>>

\* await new Promise((resolve) => setTimeout(resolve, interval))
Sleep ==
    /\ pc = "sleep"
    /\ now' = now + interval
    /\ sleeps' = sleeps + 1
    /\ pc' = "check"
    /\ UNCHANGED <<mode, setModes, setModeThrew, slow, op, args, renderId, interval, timeout,
                   startTime, render, result, posts, queries, delivered, terminalAt,
                   onlyPending, lastRtt, respondedAt, rejection>>
    /\ UNCHANGED <<setModeArg, client, responseBody, listVars, calls>>

\* Mutant of PostSucceeds: create goes on to poll the render it submitted
PostSucceeds_CreatePolls(d, body) ==
    /\ pc = "post"
    /\ Arrive(d)
    /\ responseBody' = body
    /\ render' = body.data
    /\ IF body.data.t = "undefined"
       THEN /\ Throw(PlainError("TypeError",
                        "Cannot read properties of undefined (reading 'id')"))
            /\ UNCHANGED <<renderId, interval, timeout, startTime>>
       ELSE /\ EnterWaitFor(body.data.id, WaitOptions(args.options), now + d)
            /\ UNCHANGED result
    /\ UNCHANGED <<mode, setModes, setModeThrew, op, args, posts, queries, sleeps,
                   delivered, terminalAt, onlyPending, rejection>>
    /\ UNCHANGED <<setModeArg, client, listVars, calls>>

\* The POST is answered 2xx with `body` after d ms: create returns body.data
\* (line 70); createAndWait goes on to waitFor(render.id, waitOptions)
PostSucceeds(d, body) ==
    /\ pc = "post"
    /\ Arrive(d)
    /\ responseBody' = body
    /\ IF op = "create"
       THEN /\ Return(body.data)
            /\ UNCHANGED <<renderId, interval, timeout, startTime, render>>
       ELSE /\ render' = body.data
            /\ IF body.data.t = "undefined"
               THEN /\ Throw(PlainError("TypeError",
                                "Cannot read properties of undefined (reading 'id')"))
                    /\ UNCHANGED <<renderId, interval, timeout, startTime>>
               ELSE /\ EnterWaitFor(body.data.id, WaitOptions(args.options), now + d)
                    /\ UNCHANGED result
    /\ UNCHANGED <<mode, setModes, setModeThrew, op, args, posts, queries, sleeps,
                   delivered, terminalAt, onlyPending, rejection>>
    /\ UNCHANGED <<setModeArg, client, listVars, calls>>

\* Mutant of PostFails: createAndWait's submission error wrapped in a new error
PostFails_Wrapped(d, e) ==
    /\ pc = "post"
    /\ Arrive(d)
    /\ rejection' = e
    /\ Throw(PlainError("Error", "Render submission failed: " \o HandleError(e).message))
    /\ UNCHANGED <<mode, setModes, setModeThrew, op, args, renderId, interval, timeout,
                   startTime, render, posts, queries, sleeps, delivered, terminalAt,
                   onlyPending>>
    /\ UNCHANGED <<setModeArg, client, responseBody, listVars, calls>>

\* The POST is rejected with e after d ms
PostFails(d, e) ==
    /\ pc = "post"
    /\ Arrive(d)
    /\ rejection' = e
    /\ Throw(HandleError(e))
    /\ UNCHANGED <<mode, setModes, setModeThrew, op, args, renderId, interval, timeout,
                   startTime, render, posts, queries, sleeps, delivered, terminalAt,
                   onlyPending>>
    /\ UNCHANGED <<setModeArg, client, responseBody, listVars, calls>>

----------------------------------------------------------------------------
(* Templates: list and listAll.  A template is its position in the          *)
(* catalogue; maxResults 0 stands for the default Infinity.                *)

\* const limit = 100 in listAll
ListAllLimit == 100

\* const limit = options.limit || 50
DefaultListLimit == 50

\* The request GET /templates with params { limit, offset }
ListRequest(limit, skip) == [path |-> "/templates", limit |-> limit, offset |-> skip]

\* The page a server holding n templates answers a request with
Page(request, n) ==
    LET from == request.offset
        upto == IF from + request.limit < n THEN from + request.limit ELSE n
    IN  IF from >= n THEN <<>> ELSE [i \in 1..(upto - from) |-> from + i]

\* 2xx body of GET /templates
ListBody(items) ==
    [t |-> "object", data |-> items,
     pagination |-> [count |-> Len(items)]]

\* A 2xx body without a data field
ListBodyNoData == [t |-> "undefined", data |-> <<>>, pagination |-> [count |-> 0]]

\* templates.slice(0, maxResults)
Slice(items, max) ==
    IF max = 0 \/ max >= Len(items) THEN items ELSE SubSeq(items, 1, max)

\* The validation of list (lines 195-205): the message thrown, "ok" if none
ValidateList(limit, skip) ==
    IF limit > 100 THEN "Limit cannot exceed 100"
    ELSE IF limit < 1 THEN "Limit must be at least 1"
    ELSE IF skip < 0 THEN "Offset cannot be negative"
    ELSE "ok"

\* Mutant of ListAllLoop: every page asked from the start of the catalogue
ListAllLoop_OffsetZero(gathered, skip, max) ==
    IF max = 0 \/ Len(gathered) < max
    THEN /\ lists' = Append(lists, ListRequest(ListAllLimit, 0))
         /\ pc' = "list"
         /\ UNCHANGED result
    ELSE /\ Return(Slice(gathered, max))
         /\ UNCHANGED lists

\* The head of listAll's loop with `gathered` templates and offset `skip`:
\* while (templates.length < maxResults) list({ limit, offset }), up to the
\* await of the GET; after the loop, return templates.slice(0, maxResults)
ListAllLoop(gathered, skip, max) ==
    IF max = 0 \/ Len(gathered) < max
    THEN /\ lists' = Append(lists, ListRequest(ListAllLimit, skip))
         /\ pc' = "list"
         /\ UNCHANGED result
    ELSE /\ Return(Slice(gathered, max))
         /\ UNCHANGED lists

\* The variables of the render operations, which the template operations
\* leave alone
renderVars == <<mode, setModes, setModeThrew, setModeArg, slow, now, renderId, interval,
                timeout, startTime, render, posts, queries, sleeps, delivered,
                terminalAt, onlyPending, lastRtt, respondedAt, client, responseBody,
                calls>>

\* templates.listAll({ maxResults: max }) against a server holding n templates
CallListAll(max, n) ==
    /\ pc = "idle"
    /\ op' = "listAll"
    /\ args' = [NoArgs EXCEPT !.maxResults = max]
    /\ catalogue' = n
    /\ maxResults' = max
    /\ templates' = <<>>
    /\ offset' = 0
    /\ ListAllLoop(<<>>, 0, max)
    /\ UNCHANGED <<renderVars, rejection>>

\* templates.list({ limit, offset }) against a server holding n templates
CallList(limit, skip, n) ==
    /\ pc = "idle"
    /\ op' = "list"
    /\ args' = [NoArgs EXCEPT !.options = Options(Undefined, limit, skip)]
    /\ catalogue' = n
    /\ LET lim == IF limit # 0 THEN limit ELSE DefaultListLimit
           failure == ValidateList(lim, skip)
       IN  IF failure # "ok"
           THEN Throw(PlainError("Error", failure)) /\ UNCHANGED lists
           ELSE /\ lists' = Append(lists, ListRequest(lim, skip))
                /\ pc' = "list"
                /\ UNCHANGED result
    /\ UNCHANGED <<renderVars, rejection, templates, offset, maxResults>>

\* Mutant of ListSucceeds: listAll does not stop at a short page, only at an
\* empty one
ListSucceeds_NoShortPageStop(body) ==
    /\ pc = "list"
    /\ IF op = "list"
       THEN Return(body) /\ UNCHANGED <<templates, offset, lists>>
       ELSE IF body.t = "undefined"
       THEN /\ Throw(PlainError("TypeError",
                        "Cannot read properties of undefined (reading 'length')"))
            /\ UNCHANGED <<templates, offset, lists>>
       ELSE IF Len(body.data) = 0
       THEN /\ Return(Slice(templates, maxResults))
            /\ UNCHANGED <<templates, offset, lists>>
       ELSE /\ templates' = templates \o body.data
            /\ offset' = offset + Len(body.data)
            /\ ListAllLoop(templates', offset', maxResults)
    /\ UNCHANGED <<renderVars, rejection, op, args, maxResults, catalogue>>

\* The GET /templates is answered 2xx with `body`: list returns the body;
\* listAll gathers the page and goes round its loop (lines 253-269)
ListSucceeds(body) ==
    /\ pc = "list"
    /\ IF op = "list"
       THEN Return(body) /\ UNCHANGED <<templates, offset, lists>>
       ELSE IF body.t = "undefined"
       THEN /\ Throw(PlainError("TypeError",
                        "Cannot read properties of undefined (reading 'length')"))
            /\ UNCHANGED <<templates, offset, lists>>
       ELSE IF Len(body.data) = 0
       THEN /\ Return(Slice(templates, maxResults))
            /\ UNCHANGED <<templates, offset, lists>>
       ELSE /\ templates' = templates \o body.data
            /\ offset' = offset + Len(body.data)
            /\ IF Len(body.data) < ListAllLimit
               THEN Return(Slice(templates', maxResults)) /\ UNCHANGED lists
               ELSE ListAllLoop(templates', offset', maxResults)
    /\ UNCHANGED <<renderVars, rejection, op, args, maxResults, catalogue>>

\* The GET /templates is rejected with e: neither list nor listAll catches
ListFails(e) ==
    /\ pc = "list"
    /\ rejection' = e
    /\ Throw(HandleError(e))
    /\ UNCHANGED <<renderVars, op, args, listVars>>

\* Mutant of SetMode: the new default also rewrites the marker of the requests
\* already sent
SetMode_Retroactive(m) ==
    /\ client.t = "object"
    /\ setModes < MaxSetModes
    /\ setModes' = setModes + 1
    /\ setModeArg' = m
    /\ IF m \notin {"sync", "async"}
       THEN setModeThrew' = TRUE /\ UNCHANGED <<mode, posts>>
       ELSE /\ setModeThrew' = FALSE
            /\ mode' = m
            /\ posts' = [i \in DOMAIN posts |->
                            [posts[i] EXCEPT !.xSync = RequestConfig(m).xSync]]
    /\ UNCHANGED <<now, pc, op, args, renderId, interval, timeout, startTime, render,
                   result, queries, sleeps, delivered, terminalAt, onlyPending,
                   lastRtt, respondedAt, rejection, slow>>
    /\ UNCHANGED <<client, responseBody, listVars, calls>>

\* qalib.setMode(m), called by another caller at any moment
SetMode(m) ==
    /\ client.t = "object"
    /\ setModes < MaxSetModes
    /\ setModes' = setModes + 1
    /\ setModeArg' = m
    /\ IF m \notin {"sync", "async"}
       THEN setModeThrew' = TRUE /\ UNCHANGED mode
       ELSE setModeThrew' = FALSE /\ mode' = m
    /\ UNCHANGED <<now, pc, op, args, renderId, interval, timeout, startTime, render,
                   result, posts, queries, sleeps, delivered, terminalAt, onlyPending,
                   lastRtt, respondedAt, rejection, slow>>
    /\ UNCHANGED <<client, responseBody, listVars, calls>>

\* The arguments the callers pass
CreateVariables ==
    {NotAnArray, ArrayOf(<<>>),
     ArrayOf(<<Variable("title", "Hello", Undefined, Undefined)>>),
     ArrayOf(<<Variable("title", "Hello", Undefined, Undefined),
               Variable("logo", Undefined, Undefined, Undefined)>>),
     ArrayOf(<<Variable("", "Hello", Undefined, Undefined)>>),
     ArrayOf(<<Variable("stars", Undefined, Undefined, "null")>>),
     ArrayOf(<<Variable("stars", Undefined, Undefined, "4.5")>>),
     ArrayOf(<<Variable("stars", Undefined, Undefined, "9")>>),
     ArrayOf(<<Variable("title", "", Undefined, Undefined)>>),
     ArrayOf(<<Variable("title", "Hello", "https://example.com/logo.png", Undefined)>>),
     ArrayOf(<<Variable("", "Hello", Undefined, Undefined),
               Variable("logo", Undefined, Undefined, Undefined)>>),
     ArrayOf(<<Variable("logo", Undefined, Undefined, Undefined),
               Variable("badge", Undefined, Undefined, Undefined)>>)}

CreateAndWaitVariables ==
    {ArrayOf(<<>>),
     ArrayOf(<<Variable("title", "Hello", Undefined, Undefined)>>),
     ArrayOf(<<Variable("logo", Undefined, Undefined, Undefined)>>)}

\* createAndWait is called with every mode override under one explicit timing,
\* and with every timing under no mode override
CreateAndWaitOptions ==
    {Options(m, 1000, 2500) : m \in ModeOptions}
    \cup {Options(Undefined, i, b) : i \in IntervalOptions, b \in TimeoutOptions}

Next ==
    \/ \E t \in TemplateIds, v \in CreateVariables, m \in ModeOptions :
          CallCreate(t, v, Options(m, 0, 0))
    \/ \E t \in TemplateIds, v \in CreateAndWaitVariables, o \in CreateAndWaitOptions :
          CallCreateAndWait(t, v, o)
    \/ \E id \in RenderIds, i \in IntervalOptions, b \in TimeoutOptions :
          CallWaitFor(id, Options(Undefined, i, b))
    \/ \E id \in RenderIds : CallGet(id)
    \/ LoopTop
    \/ \E d \in Rtts, body \in GetBodies : GetSucceeds(d, body)
    \/ \E d \in Rtts, e \in CallRejections : GetFails(d, e)
    \/ Sleep
    \/ \E d \in Rtts, body \in PostBodies : PostSucceeds(d, body)
    \/ \E d \in Rtts, e \in CallRejections : PostFails(d, e)

Spec == Init /\ [][Next]_vars

\* waitFor on its own, with every finite timeout given, under the scheduling
\* the runtime provides: a continuation that can run does run (the deadline
\* check and the sending of the query), a timer that was set fires, and every
\* status query is answered or rejected
FiniteTimeouts == TimeoutOptions \ {0}

NextWait ==
    \/ \E id \in RenderIds, i \in IntervalOptions, b \in FiniteTimeouts :
          CallWaitFor(id, Options(Undefined, i, b))
    \/ LoopTop
    \/ \E d \in Rtts, body \in GetBodies : GetSucceeds(d, body)
    \/ \E d \in Rtts, e \in CallRejections : GetFails(d, e)
    \/ Sleep

QueryAnswered ==
    \/ \E d \in Rtts, body \in GetBodies : GetSucceeds(d, body)
    \/ \E d \in Rtts, e \in CallRejections : GetFails(d, e)

SpecWait ==
    /\ Init
    /\ [][NextWait]_vars
    /\ WF_vars(LoopTop)
    /\ WF_vars(QueryAnswered)
    /\ WF_vars(Sleep)

\* The catalogues of the server and the options of the template operations
Catalogues == {ListAllLimit * k + r : k \in 0..MaxFullPages, r \in {0, 37}}
MaxResultsOptions == {0, 50, 100, 150}
ListLimits == {0, 10, 100, 101, -1}
ListOffsets == {0, 100, -1}

\* The answers of the server to the last GET /templates
ListBodies ==
    IF lists = <<>> THEN {ListBodyNoData}
    ELSE {ListBody(Page(lists[Len(lists)], catalogue)), ListBodyNoData}

NextList ==
    \/ \E max \in MaxResultsOptions, n \in Catalogues : CallListAll(max, n)
    \/ \E limit \in ListLimits, skip \in ListOffsets, n \in Catalogues :
          CallList(limit, skip, n)
    \/ \E body \in ListBodies : ListSucceeds(body)
    \/ \E e \in CallRejections : ListFails(e)

SpecList == Init /\ [][NextList]_vars

\* The template operations when every GET /templates is answered or rejected
ListAnswered ==
    \/ \E body \in ListBodies : ListSucceeds(body)
    \/ \E e \in CallRejections : ListFails(e)

SpecListAnswered == Init /\ [][NextList]_vars /\ WF_vars(ListAnswered)

\* The client's mode changed by another caller while calls are under way:
\* every mode override, one explicit timing
NextMode ==
    \/ \E t \in TemplateIds, v \in CreateVariables, m \in ModeOptions :
          CallCreate(t, v, Options(m, 0, 0))
    \/ \E t \in TemplateIds, v \in CreateAndWaitVariables, m \in ModeOptions :
          CallCreateAndWait(t, v, Options(m, 1000, 1000))
    \/ LoopTop
    \/ \E d \in Rtts, body \in GetBodies : GetSucceeds(d, body)
    \/ \E d \in Rtts, e \in CallRejections : GetFails(d, e)
    \/ Sleep
    \/ \E d \in Rtts, body \in PostBodies : PostSucceeds(d, body)
    \/ \E d \in Rtts, e \in CallRejections : PostFails(d, e)
    \/ \E m \in Modes \cup {"fast", Undefined} : SetMode(m)
    \/ \E id \in RenderIds : CallWaitFor(id, Options(Undefined, 1000, 1000))
    \/ \E id \in RenderIds : CallGet(id)
    \/ \E max \in MaxResultsOptions, n \in Catalogues : CallListAll(max, n)
    \/ \E limit \in ListLimits, skip \in ListOffsets, n \in Catalogues :
          CallList(limit, skip, n)
    \/ \E body \in ListBodies : ListSucceeds(body)
    \/ \E e \in CallRejections : ListFails(e)

SpecMode == Init /\ [][NextMode]_vars

\* The configs callers construct a client with
ApiKeys == {Undefined, "", "qk", "sk_live_abc", "qk_live_abc"}
ConfigModes == {Undefined, "", "sync", "async", "fast"}
BaseURLs == {Undefined, "https://staging.getqalib.com/v1"}
RequestTimeouts == {0, 5000}

\* Construction, then setMode calls and single-request operations
NextConstruct ==
    \/ \E k \in ApiKeys, m \in ConfigModes, u \in BaseURLs, t \in RequestTimeouts :
          Construct(Config(k, m, u, t))
    \/ \E m \in Modes \cup {"fast", Undefined} : SetMode(m)
    \/ \E v \in CreateAndWaitVariables, m \in ModeOptions :
          CallCreate("tmp_abc123", v, Options(m, 0, 0))
    \/ \E d \in Rtts, body \in PostBodies : PostSucceeds(d, body)
    \/ \E d \in Rtts, e \in CallRejections : PostFails(d, e)
    \/ \E id \in RenderIds : CallGet(id)
    \/ \E d \in Rtts, body \in GetBodies : GetSucceeds(d, body)
    \/ \E d \in Rtts, e \in CallRejections : GetFails(d, e)

SpecConstruct == InitNew /\ [][NextConstruct]_vars

----------------------------------------------------------------------------
(* The error translator on its own: axios rejects a request with `rejection` *)
(* and the response interceptor calls _handleError on it                     *)

InitTranslate ==
    /\ Constructed
    /\ calls = <<>>
    /\ pc = "translate"
    /\ rejection \in Rejections

Translate ==
    /\ pc = "translate"
    /\ Throw(HandleError(rejection))
    /\ UNCHANGED <<mode, setModes, setModeThrew, slow, now, op, args, renderId,
                   interval, timeout, startTime, render, posts, queries, sleeps,
                   delivered, terminalAt, onlyPending, lastRtt, respondedAt,
                   rejection>>
    /\ UNCHANGED <<setModeArg, client, responseBody, listVars, calls>>

NextTranslate == Translate

SpecTranslate == InitTranslate /\ [][NextTranslate]_vars

\* _handleError as a function of the error object it is handed: it reads
\* error.code before error.response and nothing in it ties the two together,
\* so the reason code and the response vary independently
ReasonCodes == {"ECONNABORTED", "ERR_BAD_REQUEST", "ERR_BAD_RESPONSE", Undefined}

ErrorObjects ==
    Rejections
        \cup {AxiosError(c, "Request failed", Response(s, b)) :
                 c \in ReasonCodes, s \in ErrorStatuses, b \in ErrorBodies}

InitHandleError ==
    /\ Constructed
    /\ calls = <<>>
    /\ pc = "translate"
    /\ rejection \in ErrorObjects

SpecHandleError == InitHandleError /\ [][NextTranslate]_vars

----------------------------------------------------------------------------
(* Concurrent waitFor calls on one client.  Each call is a record of its    *)
(* own locals; the clock is shared.  A request sent at time t with round    *)
(* trip d is answered at t + d, a delay set at t for `interval` fires at    *)
(* t + interval, and time advances to the earliest of the pending events.  *)

Callers == {"a", "b"}

\* The locals of one waitFor call, its pending event and what it was answered
IdleCall ==
    [pc |-> "idle", renderId |-> Undefined, interval |-> 0, timeout |-> 0,
     startTime |-> 0, queries |-> 0, due |-> 0, rtt |-> 0, answers |-> <<>>,
     result |-> NoResult]

\* One answer to a status query: its round trip and the 2xx body, or the
\* rejection
Answered(d, body) == [d |-> d, kind |-> "body", data |-> body.data, error |-> NoError]
Rejected(d, e) == [d |-> d, kind |-> "rejection", data |-> NoData, error |-> HandleError(e)]

\* The variables of the single call, which the concurrent calls leave alone
soloVars == <<mode, setModes, setModeThrew, setModeArg, slow, pc, op, args, renderId,
              interval, timeout, startTime, render, result, posts, queries, sleeps,
              delivered, terminalAt, onlyPending, lastRtt, respondedAt, rejection,
              client, responseBody, listVars>>

InitConcurrent ==
    /\ Constructed
    /\ pc = "idle"
    /\ rejection = NoRejection
    /\ calls = [c \in Callers |-> IdleCall]

\* Mutant of WaitForStart: startTime kept in a field shared by the calls
WaitForStart_SharedStartTime(c, id, options) ==
    /\ calls[c].pc = "idle"
    /\ calls' = [o \in Callers |->
                    IF o = c
                    THEN [calls[c] EXCEPT !.renderId = id,
                                          !.interval = WaitInterval(options),
                                          !.timeout = WaitTimeout(options),
                                          !.startTime = now,
                                          !.pc = "check"]
                    ELSE [calls[o] EXCEPT !.startTime = now]]
    /\ UNCHANGED <<now, soloVars>>

\* Caller c calls waitFor(id, options): lines 108-110
WaitForStart(c, id, options) ==
    /\ calls[c].pc = "idle"
    /\ calls' = [calls EXCEPT ![c] =
                    [@ EXCEPT !.renderId = id,
                              !.interval = WaitInterval(options),
                              !.timeout = WaitTimeout(options),
                              !.startTime = now,
                              !.pc = "check"]]
    /\ UNCHANGED <<now, soloVars>>

\* The top of c's loop: the deadline check, then the GET is sent; it will be
\* answered after d ms (lines 112-119)
WaitForCheck(c, d) ==
    /\ calls[c].pc = "check"
    /\ calls' = [calls EXCEPT ![c] =
                    IF TimedOut(now - @.startTime, @.timeout)
                    THEN [@ EXCEPT !.result =
                                      Thrown(TimeoutError(TimeoutMessage(calls[c].timeout),
                                                          NullDetails)),
                                   !.pc = "done"]
                    ELSE [@ EXCEPT !.queries = @ + 1, !.rtt = d, !.due = now + d,
                                   !.pc = "get"]]
    /\ UNCHANGED <<now, soloVars>>

\* c's GET is answered 2xx with `body` (lines 119-135)
WaitForResponse(c, body) ==
    /\ calls[c].pc = "get"
    /\ calls[c].due = now
    /\ calls' = [calls EXCEPT ![c] =
                    LET answered == [@ EXCEPT !.answers = Append(@, Answered(calls[c].rtt, body))]
                    IN  CASE PollDecision(body.data) = "return" ->
                                [answered EXCEPT !.result = Returned(body.data),
                                                 !.pc = "done"]
                          [] PollDecision(body.data) = "throw" ->
                                [answered EXCEPT
                                    !.result = Thrown(RenderFailed(calls[c].renderId, body.data)),
                                    !.pc = "done"]
                          [] OTHER ->
                                [answered EXCEPT !.due = now + calls[c].interval,
                                                 !.pc = "sleep"]]
    /\ UNCHANGED <<now, soloVars>>

\* c's GET is rejected with e
WaitForRejection(c, e) ==
    /\ calls[c].pc = "get"
    /\ calls[c].due = now
    /\ calls' = [calls EXCEPT ![c] =
                    [@ EXCEPT !.answers = Append(@, Rejected(calls[c].rtt, e)),
                              !.result = Thrown(HandleError(e)),
                              !.pc = "done"]]
    /\ UNCHANGED <<now, soloVars>>

\* c's delay is over (line 135)
WaitForWake(c) ==
    /\ calls[c].pc = "sleep"
    /\ calls[c].due = now
    /\ calls' = [calls EXCEPT ![c] = [@ EXCEPT !.pc = "check"]]
    /\ UNCHANGED <<now, soloVars>>

\* The callers waiting for an answer or a timer
Waiting == {c \in Callers : calls[c].pc \in {"get", "sleep"}}

\* Time passes to the earliest pending event, once every call that can run
\* now has run
Tick ==
    /\ Waiting # {}
    /\ \A c \in Callers : calls[c].pc # "check"
    /\ \A c \in Waiting : calls[c].due > now
    /\ now' = CHOOSE t \in {calls[c].due : c \in Waiting} :
                  \A c \in Waiting : t <= calls[c].due
    /\ UNCHANGED <<calls, soloVars>>

\* What the concurrent callers ask and are answered
ConcurrentOptions == {Options(Undefined, 1000, 1000), Options(Undefined, 500, 1500)}
ConcurrentBodies ==
    {[data |-> Snapshot("r1", st, Undefined, Undefined)] :
        st \in {"pending", "completed", "failed"}}
ConcurrentRejections == {AxiosError("ECONNREFUSED", "", NoResponse)}

NextConcurrent ==
    \/ \E c \in Callers, o \in ConcurrentOptions : WaitForStart(c, "r1", o)
    \/ \E c \in Callers, d \in Rtts : WaitForCheck(c, d)
    \/ \E c \in Callers, body \in ConcurrentBodies : WaitForResponse(c, body)
    \/ \E c \in Callers, e \in ConcurrentRejections : WaitForRejection(c, e)
    \/ \E c \in Callers : WaitForWake(c)
    \/ Tick

SpecConcurrent == InitConcurrent /\ [][NextConcurrent]_vars

\* Every source of errors together: the translator on every rejection, and the
\* poller, which makes TimeoutError and RenderError itself
InitErrors == InitTranslate \/ Init

NextErrors ==
    \/ Translate
    \/ \E id \in RenderIds : CallWaitFor(id, Options(Undefined, 1000, 1000))
    \/ LoopTop
    \/ \E d \in Rtts, body \in GetBodies : GetSucceeds(d, body)
    \/ \E d \in Rtts, e \in CallRejections : GetFails(d, e)
    \/ Sleep

SpecErrors == InitErrors /\ [][NextErrors]_vars

----------------------------------------------------------------------------
(* Properties *)

Done == pc = "done"

\* The call runs waitFor's loop: waitFor itself, or the wait of createAndWait
Polling == op \in {"waitFor", "createAndWait"}

Failed(name) == Done /\ result.kind = "throw" /\ result.error.name = name

\* C1: when the first terminal answer of a waitFor call is `completed`, on
\* query N, the call has returned exactly the render object that query
\* delivered and has issued exactly N status queries, none after it.
C1_CompletedOnNthQuery ==
    (Polling /\ terminalAt > 0 /\ delivered.status = "completed") =>
        /\ Done
        /\ result = Returned(delivered)
        /\ queries = terminalAt

C1_Witness ==
    /\ op = "waitFor" /\ Done
    /\ terminalAt = 3 /\ queries = 3
    /\ result.kind = "return" /\ result.value.status = "completed"

\* C2: when the Nth status query of a waitFor call is answered `failed`, the
\* call fails with a RenderError at the moment that answer arrives: it has
\* slept N-1 times, not once more, and has issued no query after query N.
C2_FailedOnNthQuery ==
    (Polling /\ terminalAt > 0 /\ delivered.status = "failed") =>
        /\ Failed("RenderError")
        /\ queries = terminalAt
        /\ sleeps = terminalAt - 1
        /\ now = respondedAt

C2_Witness ==
    /\ op = "waitFor" /\ Failed("RenderError")
    /\ terminalAt = 3 /\ queries = 3 /\ sleeps = 2

\* C3 as claimed: at the top of a loop iteration of waitFor, when the elapsed
\* time is greater than or equal to the timeout, the call fails with a Timeout
\* error and issues no status query in that iteration.
C3_DeadlineAtOrPastTimeout ==
    [][(pc = "check" /\ now - startTime >= timeout) =>
          /\ queries' = queries
          /\ pc' = "done"
          /\ result'.kind = "throw"
          /\ result'.error.name = "TimeoutError"]_vars

\* C3 amended: the deadline is checked before every status query; when the
\* elapsed time is strictly greater than the timeout the call fails with a
\* Timeout error and issues no query in that iteration, and when it is less
\* than or equal to the timeout (equal included) the query is issued.
C3_DeadlinePastTimeout ==
    [][pc = "check" =>
          IF now - startTime > timeout
          THEN /\ queries' = queries
               /\ pc' = "done"
               /\ result'.kind = "throw"
               /\ result'.error.name = "TimeoutError"
          ELSE Truthy(renderId) => (queries' = queries + 1 /\ pc' = "get")]_vars

C3_Witness ==
    /\ Polling /\ Failed("TimeoutError")
    /\ now - startTime > timeout
    /\ queries >= 2

\* C4: a waitFor call whose status queries were all answered `pending` has
\* issued at most floor(timeout / interval) + 1 status queries (6 for timeout
\* 5000 and interval 1000), and when it ends without a rejected query it ends
\* with a Timeout error.
C4_PendingQueryBound ==
    (Polling /\ timeout > 0 /\ onlyPending) =>
        /\ queries <= (timeout \div interval) + 1
        /\ (Done /\ queries > 0 /\ rejection = NoRejection) => Failed("TimeoutError")

C4_Witness ==
    /\ op = "waitFor" /\ onlyPending /\ Failed("TimeoutError")
    /\ timeout = 5000 /\ interval = 1000
    /\ queries = 6

\* C5 as claimed: a waitFor call on a job that stays `pending` raises its
\* Timeout error no later than timeout + one query round-trip after it started.
C5_PendingWithinTimeoutPlusRoundTrip ==
    (Polling /\ onlyPending /\ Failed("TimeoutError")) =>
        now - startTime <= timeout + lastRtt

\* C5 amended: a waitFor call on a job that stays `pending` raises its Timeout
\* error no later than timeout + one interval + one query round-trip after it
\* started.
C5_PendingWithinTimeoutPlusIntervalPlusRoundTrip ==
    (Polling /\ onlyPending /\ Failed("TimeoutError")) =>
        now - startTime <= timeout + interval + lastRtt

C5_Witness ==
    /\ op = "waitFor" /\ onlyPending /\ Failed("TimeoutError")
    /\ queries >= 2
    /\ now - startTime > timeout + lastRtt

\* C6: at every moment of a waitFor call, whatever the server answers, the time
\* elapsed since the call started is at most timeout + interval + the
\* round-trip of the last query: the call never runs longer than that.
C6_OvershootBound ==
    (Polling /\ timeout > 0) =>
        now - startTime <= timeout + interval + lastRtt

C6_Witness ==
    /\ op = "waitFor" /\ Done /\ ~onlyPending
    /\ lastRtt > 0
    /\ now - startTime = timeout + interval + lastRtt

\* C7: when a status query of a waitFor call is rejected, the call has failed
\* at that moment with the error the translator made of the rejection: no
\* retry, no sleep, no further query.
C7_QueryErrorPropagates ==
    (Polling /\ queries > 0 /\ rejection # NoRejection) =>
        /\ Done
        /\ result = Thrown(HandleError(rejection))
        /\ now = respondedAt

C7_Witness ==
    /\ op = "waitFor" /\ Failed("NotFoundError")
    /\ queries = 2 /\ sleeps = 1
    /\ rejection.response.t = "object"

\* C8: every POST /render request sent by createAndWait carries no X-Sync
\* header, for every client default mode and every mode override.
C8_CreateAndWaitSubmitsAsync ==
    op = "createAndWait" =>
        \A i \in DOMAIN posts : posts[i].xSync = Undefined

C8_Witness ==
    /\ op = "createAndWait"
    /\ mode = "sync" /\ args.options.mode = "sync"
    /\ Len(posts) = 1

\* C9: once the submission of createAndWait has returned a job, the poller
\* runs with the interval and timeout waitFor would take from the caller's
\* options (the defaults when omitted), on the id of the returned job, its
\* clock started when the submission returned.
C9_CreateAndWaitDelegatesTiming ==
    (op = "createAndWait" /\ timeout > 0) =>
        /\ interval = WaitInterval(args.options)
        /\ timeout = WaitTimeout(args.options)
        /\ (pc = "check" /\ queries = 0) =>
              (renderId = render.id /\ startTime = respondedAt)

C9_Witness ==
    /\ op = "createAndWait" /\ Done /\ result.kind = "return"
    /\ args.options.interval = 2000 /\ args.options.timeout = 2500
    /\ interval = 2000 /\ timeout = 2500
    /\ queries = 2

\* The error class the translator is to produce for a response status
TypedErrorName(status) ==
    CASE status = 400 -> "ValidationError"
      [] status = 401 -> "AuthenticationError"
      [] status = 402 -> "InsufficientCreditsError"
      [] status = 403 -> "ForbiddenError"
      [] status = 404 -> "NotFoundError"
      [] status = 429 -> "RateLimitError"
      [] OTHER -> "APIError"

\* C10: for a response with status 400, 401, 402, 403, 404 or 429 and any
\* body, the translator throws the error of the matching class, and its
\* statusCode is the status of the response.
C10_TypedErrorPerStatus ==
    (Done /\ rejection.response.t = "object"
          /\ rejection.response.status \in {400, 401, 402, 403, 404, 429}) =>
        /\ result.kind = "throw"
        /\ result.error.name = TypedErrorName(rejection.response.status)
        /\ result.error.statusCode = rejection.response.status

C10_Witness ==
    /\ Failed("InsufficientCreditsError")
    /\ rejection.response.t = "object"
    /\ rejection.response.status = 402
    /\ rejection.response.data.t = "null"
    /\ result.error.statusCode = 402

\* C11: for a response whose status is none of 400, 401, 402, 403, 404, 429
\* (418, 500, 503), the translator throws an APIError whose statusCode is the
\* status of the response.
C11_GenericErrorKeepsStatus ==
    (Done /\ rejection.response.t = "object"
          /\ rejection.response.status \notin {400, 401, 402, 403, 404, 429}) =>
        /\ result.kind = "throw"
        /\ result.error.name = "APIError"
        /\ result.error.statusCode = rejection.response.status

C11_Witness ==
    /\ Failed("APIError")
    /\ rejection.response.t = "object"
    /\ rejection.response.status = 503
    /\ result.error.statusCode = 503

\* C12: for a rejection without a response, the translator throws a
\* TimeoutError when the reason code is ECONNABORTED, and otherwise an APIError
\* with statusCode 500 and code NETWORK_ERROR.
C12_TransportFailure ==
    (Done /\ rejection # NoRejection /\ rejection.response.t = "undefined") =>
        /\ result.kind = "throw"
        /\ IF rejection.code = "ECONNABORTED"
           THEN result.error.name = "TimeoutError"
           ELSE /\ result.error.name = "APIError"
                /\ result.error.statusCode = 500
                /\ result.error.code = "NETWORK_ERROR"

C12_Witness ==
    /\ Failed("APIError")
    /\ rejection.response.t = "undefined"
    /\ rejection.code = "ECONNREFUSED"
    /\ result.error.code = "NETWORK_ERROR"

\* The nine kinds of Domain Error
DomainErrorNames ==
    {"AuthenticationError", "ValidationError", "InsufficientCreditsError",
     "NotFoundError", "ForbiddenError", "RateLimitError", "TimeoutError",
     "RenderError", "APIError"}

\* C13: for every rejection, whatever the body of its response (absent, null,
\* a string, an object with or without message, error, code and details, details
\* an object or not), the translator throws one Domain Error, never another
\* exception, and the error has a non-empty message and a non-empty code.
C13_TranslatorNeverFails ==
    (Done /\ rejection # NoRejection) =>
        /\ result.kind = "throw"
        /\ result.error.name \in DomainErrorNames
        /\ Truthy(result.error.message)
        /\ Truthy(result.error.code)

C13_Witness ==
    /\ Failed("ValidationError")
    /\ rejection.response.t = "object"
    /\ rejection.response.data.t = "null"
    /\ result.error.message = "Unknown error occurred"

\* The code each typed error class fixes
TypedErrorCode(status) ==
    CASE status = 400 -> "VALIDATION_ERROR"
      [] status = 401 -> "AUTHENTICATION_ERROR"
      [] status = 402 -> "INSUFFICIENT_CREDITS"
      [] status = 403 -> "FORBIDDEN"
      [] status = 404 -> "NOT_FOUND"
      [] status = 429 -> "RATE_LIMIT_EXCEEDED"

\* C14 as claimed: for every received response, when the body supplies a code
\* the error the translator throws carries that code.
C14_CodeFromBody ==
    (Done /\ rejection.response.t = "object"
          /\ Truthy(rejection.response.data.code)) =>
        result.error.code = rejection.response.data.code

\* C14 amended: in the generic branch the error's code is the code of the body
\* when the body supplies one and UNKNOWN_ERROR when it does not; in the
\* branches of 400, 401, 402, 403, 404 and 429 the code is the fixed code of
\* the error class, whatever the body supplies.
C14_CodeFromBodyInGenericBranch ==
    (Done /\ rejection.response.t = "object") =>
        LET status == rejection.response.status
            data == rejection.response.data
        IN  IF status \in {400, 401, 402, 403, 404, 429}
            THEN result.error.code = TypedErrorCode(status)
            ELSE result.error.code =
                    IF Truthy(data.code) THEN data.code ELSE "UNKNOWN_ERROR"

C14_Witness ==
    /\ Failed("APIError")
    /\ rejection.response.t = "object"
    /\ rejection.response.status = 503
    /\ rejection.response.data.code = "E_SERVER"
    /\ result.error.code = "E_SERVER"

\* C15 as claimed: for a 402 response, the details of the error carry
\* creditBalance and requiredCredits equal to the body's top-level fields of
\* those names when present, and every entry of the body's details object.
C15_CreditFieldsFromBody ==
    (Done /\ rejection.response.t = "object" /\ rejection.response.status = 402) =>
        LET data == rejection.response.data
            details == result.error.details
        IN  /\ data.creditBalance # Undefined =>
                details.creditBalance = data.creditBalance
            /\ data.requiredCredits # Undefined =>
                details.requiredCredits = data.requiredCredits
            /\ data.details.t = "object" => details.rest = data.details

\* C15 amended: for a 402 response, the details of the error carry every entry
\* of the body's details object, and creditBalance and requiredCredits equal to
\* the body's top-level fields of those names unless the body's details object
\* has an entry of the same name, which then is the value carried.
C15_CreditFieldsUnlessInDetails ==
    (Done /\ rejection.response.t = "object" /\ rejection.response.status = 402) =>
        LET data == rejection.response.data
            details == result.error.details
            Own(key) == data.details.t = "object" /\ key \in DOMAIN data.details
        IN  /\ details.creditBalance =
                IF Own("creditBalance") THEN data.details.creditBalance
                ELSE data.creditBalance
            /\ details.requiredCredits =
                IF Own("requiredCredits") THEN data.details.requiredCredits
                ELSE data.requiredCredits
            /\ data.details.t = "object" => details.rest = data.details

C15_Witness ==
    /\ Failed("InsufficientCreditsError")
    /\ rejection.response.t = "object"
    /\ rejection.response.data.creditBalance = "3"
    /\ rejection.response.data.details = [t |-> "object", creditBalance |-> "9"]
    /\ result.error.details.creditBalance = "9"
    /\ result.error.details.requiredCredits = "5"

\* The call is create, or createAndWait, which starts by calling create
Creating == op \in {"create", "createAndWait"}

\* The text t occurs in the text s
Contains(s, t) ==
    \E i \in 1..(Len(s) - Len(t) + 1) : SubSeq(s, i, i + Len(t) - 1) = t

Named(variable) == variable.name \notin {Undefined, "null", ""}

\* The variable has none of text, image_url and rating
NoPayload(variable) ==
    /\ variable.text \in {Undefined, "null", ""}
    /\ variable.image_url \in {Undefined, "null", ""}
    /\ variable.rating = Undefined

\* The positions of the list whose entry has a name and no payload
Payloadless(variables) ==
    {i \in 1..Len(variables.items) :
        Named(variables.items[i]) /\ NoPayload(variables.items[i])}

\* The call has failed before sending anything
FailedLocally == Done /\ result.kind = "throw" /\ posts = <<>> /\ queries = 0

\* C16 as claimed: create called with a variable list in which some entry has a
\* name but none of text, image_url and rating fails locally, sends no request,
\* and the failure message contains the name of such an entry.
C16_MessageNamesPayloadlessEntry ==
    (Creating /\ args.variables.isArray /\ Payloadless(args.variables) # {}) =>
        /\ FailedLocally
        /\ \E i \in Payloadless(args.variables) :
              Contains(result.error.message, args.variables.items[i].name)

\* C16 amended: create called with a non-empty templateId and a variable list
\* in which some entry has a name but none of text, image_url and rating fails
\* locally and sends no request; the failure message contains the name of the
\* first such entry when every entry before it has a name, and is the message
\* of the missing name, containing no entry's name, when an earlier entry has
\* none.
C16_MessageNamesFirstFailingEntry ==
    (/\ Creating
     /\ args.templateId \notin {Undefined, "null", ""}
     /\ args.variables.isArray
     /\ Payloadless(args.variables) # {}) =>
        LET items == args.variables.items
            first == CHOOSE i \in Payloadless(args.variables) :
                        \A j \in Payloadless(args.variables) : i <= j
        IN  /\ FailedLocally
            /\ IF \E j \in 1..(first - 1) : ~Named(items[j])
               THEN /\ result.error.message = "Each variable must have a name property"
                    /\ \A i \in Payloadless(args.variables) :
                          ~Contains(result.error.message, items[i].name)
               ELSE Contains(result.error.message, items[first].name)

C16_Witness ==
    /\ FailedLocally
    /\ op = "create"
    /\ args.templateId = "tmp_abc123"
    /\ args.variables = ArrayOf(<<Variable("title", "Hello", Undefined, Undefined),
                                  Variable("logo", Undefined, Undefined, Undefined)>>)
    /\ Contains(result.error.message, "logo")

\* Some precondition of create fails on these arguments: empty templateId,
\* variables not a non-empty array, a variable without a non-empty name, a
\* variable without a payload
PreconditionFails(templateId, variables) ==
    \/ templateId \in {Undefined, "null", ""}
    \/ ~variables.isArray
    \/ Len(variables.items) = 0
    \/ \E i \in 1..Len(variables.items) :
          ~Named(variables.items[i]) \/ NoPayload(variables.items[i])

\* C17: a call of create (or of createAndWait, through create) whose arguments
\* fail a local precondition completes in the step that made it, by throwing,
\* with no POST and no status query sent and the client's default mode as it
\* was.
C17_PreconditionFailureShortCircuits ==
    [][(/\ pc = "idle"
        /\ pc' # "idle"
        /\ op' \in {"create", "createAndWait"}
        /\ PreconditionFails(args'.templateId, args'.variables)) =>
            /\ pc' = "done"
            /\ result'.kind = "throw"
            /\ posts' = posts
            /\ queries' = queries
            /\ mode' = mode]_vars

C17_Witness ==
    /\ FailedLocally
    /\ op = "create"
    /\ args.templateId = "tmp_abc123"
    /\ args.variables = NotAnArray
    /\ setModes = 1
    /\ result.error.message = "Variables must be a non-empty array"

\* C18 as claimed: every local precondition failure of create is reported as a
\* Validation error: name ValidationError, status code 400, code
\* VALIDATION_ERROR.
C18_LocalFailureIsValidationError ==
    (Done /\ Creating /\ PreconditionFails(args.templateId, args.variables)) =>
        /\ result.kind = "throw"
        /\ result.error.name = "ValidationError"
        /\ result.error.statusCode = 400
        /\ result.error.code = "VALIDATION_ERROR"

\* C19 as claimed: every operation that fails completes with an error of one
\* of the nine domain error classes, never a plain Error or a TypeError.
C19_OnlyDomainErrors ==
    (Done /\ result.kind = "throw") => result.error.name \in DomainErrorNames

\* The ratings the type of a rating variable allows, among those passed
RatingsInRange == {"0", "4.5", "5"}

\* A non-empty name and exactly one payload among text, image_url and a rating
\* within [0,5]
WellFormed(variable) ==
    /\ Named(variable)
    /\ \/ /\ variable.text \notin {Undefined, "null", ""}
          /\ variable.image_url \in {Undefined, "null", ""}
          /\ variable.rating = Undefined
       \/ /\ variable.text \in {Undefined, "null", ""}
          /\ variable.image_url \notin {Undefined, "null", ""}
          /\ variable.rating = Undefined
       \/ /\ variable.text \in {Undefined, "null", ""}
          /\ variable.image_url \in {Undefined, "null", ""}
          /\ variable.rating \in RatingsInRange

\* C20 as claimed: create sends a request only when every variable has a
\* non-empty name and exactly one payload among text, image_url and a numeric
\* rating within [0,5].
C20_OnlyWellFormedVariablesSent ==
    (Creating /\ posts # <<>>) =>
        \A i \in 1..Len(args.variables.items) : WellFormed(args.variables.items[i])

\* C20 amended: create called with a non-empty templateId and a non-empty
\* array of variables fails locally exactly when some variable has no
\* non-empty name or has none of a non-empty text, a non-empty image_url and a
\* rating other than undefined; a variable carrying two or more payloads, or a
\* rating outside [0,5] or not numeric, is sent to the server.
C20_RejectedIffNamelessOrPayloadless ==
    (/\ Creating
     /\ args.templateId \notin {Undefined, "null", ""}
     /\ args.variables.isArray
     /\ Len(args.variables.items) > 0) =>
        LET items == args.variables.items
        IN  /\ FailedLocally <=>
                \E i \in 1..Len(items) : ~Named(items[i]) \/ NoPayload(items[i])
            /\ ~FailedLocally =>
                /\ Len(posts) = 1
                /\ posts[1].variables = args.variables

C20_Witness ==
    /\ op = "create"
    /\ args.variables =
          ArrayOf(<<Variable("title", "Hello", "https://example.com/logo.png", Undefined)>>)
    /\ Len(posts) = 1
    /\ ~WellFormed(args.variables.items[1])

\* C21: the POST /render request of a create call carries the synchronous
\* marker exactly when the effective mode is sync, the effective mode being
\* the call's mode override when one is given and the client's default mode
\* at the time of the call otherwise.
C21_MarkerIffEffectiveModeSync ==
    [][(pc = "idle" /\ op' = "create" /\ posts' # posts) =>
          LET override == args'.options.mode
              effective == IF override \in {Undefined, "null", ""}
                           THEN mode ELSE override
          IN  /\ Len(posts') = Len(posts) + 1
              /\ posts'[Len(posts')].xSync = "true" <=> effective = "sync"]_vars

C21_Witness ==
    /\ op = "create"
    /\ setModes = 0
    /\ mode = "sync"
    /\ args.options.mode = "async"
    /\ Len(posts) = 1
    /\ posts[1].xSync = Undefined

\* C22: a create call, in sync mode as in async mode, sends no status query
\* and sleeps no interval; once past its local checks it has sent exactly one
\* POST /render, and when it returns, it returns the data of that request's
\* response body.
C22_CreateDoesNotPoll ==
    op = "create" =>
        /\ queries = 0
        /\ sleeps = 0
        /\ Len(posts) <= 1
        /\ (pc = "post" \/ (Done /\ ~FailedLocally)) => Len(posts) = 1
        /\ (Done /\ result.kind = "return") => result.value = responseBody.data

C22_Witness ==
    /\ op = "create"
    /\ Done
    /\ Len(posts) = 1
    /\ posts[1].xSync = "true"
    /\ result.kind = "return"
    /\ result.value = Snapshot("r1", "pending", Undefined, Undefined)
    /\ queries = 0

\* The key has the prefix the service's keys have
WellFormedKey(key) ==
    /\ key \notin {Undefined, "null"}
    /\ \E rest \in {"", "live_abc"} : key = "qk_" \o rest

\* C23 as claimed: constructing a client with a credential that does not start
\* with qk_, an empty or missing credential included, fails with an
\* AuthenticationError; no client exists afterwards and no request is sent.
C23_MalformedKeyIsAuthenticationError ==
    (op = "new" /\ ~WellFormedKey(args.config.apiKey)) =>
        /\ pc = "dead"
        /\ result.kind = "throw"
        /\ result.error.name = "AuthenticationError"
        /\ client = NoClient
        /\ posts = <<>> /\ queries = 0

\* The value is given and is neither sync nor async
InvalidMode(m) == m \notin {Undefined, "null", "", "sync", "async"}

RECURSIVE PagesUpTo(_, _, _)
PagesUpTo(requests, k, n) ==
    IF k = 0 THEN <<>>
    ELSE PagesUpTo(requests, k - 1, n) \o Page(requests[k], n)

\* C28: every request of listAll asks for 100 items from the offset equal to
\* the number of items the earlier pages held, each earlier page being full;
\* when listAll returns it returns the pages it was sent, one after another in
\* the order received (cut to maxResults when one is given), and without
\* maxResults the page of its last request is the first with fewer than 100
\* items: a catalogue of 237 gives pages of 100, 100 and 37, 3 requests and
\* 237 items.
C28_ListAllWalksPages ==
    op = "listAll" =>
        /\ \A k \in 1..Len(lists) :
              /\ lists[k].limit = 100
              /\ lists[k].offset = Len(PagesUpTo(lists, k - 1, catalogue))
              /\ k < Len(lists) => Len(Page(lists[k], catalogue)) = 100
        /\ (Done /\ result.kind = "return") =>
              /\ result.value =
                    LET all == PagesUpTo(lists, Len(lists), catalogue)
                    IN  IF args.maxResults = 0 \/ args.maxResults >= Len(all) THEN all
                        ELSE SubSeq(all, 1, args.maxResults)
              /\ args.maxResults = 0 =>
                    /\ Len(Page(lists[Len(lists)], catalogue)) < 100
                    /\ result.value = [i \in 1..catalogue |-> i]

C28_Witness ==
    /\ op = "listAll"
    /\ Done
    /\ args.maxResults = 0
    /\ catalogue = 237
    /\ Len(lists) = 3
    /\ Len(Page(lists[3], catalogue)) = 37
    /\ result.kind = "return"
    /\ Len(result.value) = 237
    /\ result.value[1] = 1 /\ result.value[237] = 237

\* C25: a step that is not a setMode call leaves the client's default mode,
\* credential, endpoint and request timeout as they were, whichever operation
\* takes it (create with a mode override, createAndWait, get, waitFor, list,
\* listAll) and whether it succeeds or fails.
C25_OnlySetModeChangesConfiguration ==
    [][setModes' = setModes => (mode' = mode /\ client' = client)]_vars

C25_Witness ==
    /\ op = "createAndWait"
    /\ Done
    /\ setModes = 0
    /\ mode = "sync"
    /\ Len(posts) = 1
    /\ posts[1].xSync = Undefined
    /\ client = DefaultClient

\* C26: a rejection met by createAndWait, at its submission or at a status
\* query, completes the call with exactly the error the translator makes of
\* that rejection; when it is the submission that was rejected no status query
\* is issued.
C26_ErrorPropagatesUnchanged ==
    /\ []((op = "createAndWait" /\ rejection # NoRejection) =>
            (Done /\ result = Thrown(HandleError(rejection))))
    /\ [][(op = "createAndWait" /\ pc = "post" /\ rejection' # rejection) =>
            (pc' = "done" /\ queries' = 0 /\ sleeps' = 0)]_vars

C26_Witness ==
    /\ op = "createAndWait"
    /\ Done
    /\ queries = 0
    /\ Len(posts) = 1
    /\ rejection.response.t = "object"
    /\ rejection.response.status = 402
    /\ result.kind = "throw"
    /\ result.error.name = "InsufficientCreditsError"
    /\ result.error.details.creditBalance = "3"

\* The eight kinds of error other than the generic APIError
TypedKinds ==
    {"AuthenticationError", "ValidationError", "InsufficientCreditsError",
     "NotFoundError", "ForbiddenError", "RateLimitError", "TimeoutError",
     "RenderError"}

KindCode(kind) ==
    CASE kind = "AuthenticationError" -> "AUTHENTICATION_ERROR"
      [] kind = "ValidationError" -> "VALIDATION_ERROR"
      [] kind = "InsufficientCreditsError" -> "INSUFFICIENT_CREDITS"
      [] kind = "NotFoundError" -> "NOT_FOUND"
      [] kind = "ForbiddenError" -> "FORBIDDEN"
      [] kind = "RateLimitError" -> "RATE_LIMIT_EXCEEDED"
      [] kind = "TimeoutError" -> "TIMEOUT_ERROR"
      [] kind = "RenderError" -> "RENDER_ERROR"

KindStatus(kind) ==
    CASE kind = "AuthenticationError" -> 401
      [] kind = "ValidationError" -> 400
      [] kind = "InsufficientCreditsError" -> 402
      [] kind = "NotFoundError" -> 404
      [] kind = "ForbiddenError" -> 403
      [] kind = "RateLimitError" -> 429
      [] kind = "TimeoutError" -> 408
      [] kind = "RenderError" -> 500

\* The call threw an error of one of the nine classes
ThrewDomainError == Done /\ result.kind = "throw" /\ result.error.name \in DomainErrorNames

\* C29 as claimed: an error of one of the eight typed kinds carries the code
\* and status of its kind, and an error carrying the code of a kind is of that
\* kind: two errors of different kinds never carry the same code.
C29_CodeDeterminesKind ==
    ThrewDomainError =>
        /\ result.error.name \in TypedKinds =>
              /\ result.error.code = KindCode(result.error.name)
              /\ result.error.statusCode = KindStatus(result.error.name)
        /\ \A kind \in TypedKinds :
              result.error.code = KindCode(kind) => result.error.name = kind

\* C29 amended: an error of one of the eight typed kinds carries the code and
\* status of its kind whatever message or body produced it, and the codes of
\* the eight kinds differ from one another; the generic APIError carries the
\* code the response body supplies, which can be the code of a typed kind.
C29_TypedKindFixesCode ==
    ThrewDomainError =>
        /\ result.error.name \in TypedKinds =>
              /\ result.error.code = KindCode(result.error.name)
              /\ result.error.statusCode = KindStatus(result.error.name)
        /\ \A kind \in TypedKinds :
              result.error.code = KindCode(kind) =>
                  result.error.name \in {kind, "APIError"}
        /\ (result.error.name = "APIError" /\ rejection.response.t = "object") =>
              result.error.code =
                  IF rejection.response.data.code \in {Undefined, "null", ""}
                  THEN "UNKNOWN_ERROR" ELSE rejection.response.data.code

C29_Witness ==
    /\ ThrewDomainError
    /\ result.error.name = "APIError"
    /\ result.error.statusCode = 500
    /\ result.error.code = "VALIDATION_ERROR"
    /\ rejection.response.data.code = "VALIDATION_ERROR"

\* C30 as claimed: for a 2xx response to GET /render/{id}, get returns the
\* response body itself.
C30_GetReturnsBody ==
    (op = "get" /\ Done /\ result.kind = "return") => result.value = responseBody

\* C30 amended: for a 2xx response to GET /render/{id}, get returns the data
\* field of the response body, unmodified, as the Job snapshot, and waitFor
\* examines the status field of that data: it returns the data of the body
\* whose data has status completed.
C30_GetReturnsBodyData ==
    /\ (op = "get" /\ Done /\ result.kind = "return") =>
          /\ result.value = responseBody.data
          /\ result.value # responseBody
    /\ (op = "waitFor" /\ Done /\ result.kind = "return") =>
          /\ responseBody.data.status = "completed"
          /\ result.value = responseBody.data

C30_Witness ==
    /\ op = "get"
    /\ Done
    /\ queries = 1
    /\ responseBody = [data |-> Snapshot("r1", "processing", Undefined, Undefined)]
    /\ result = Returned(Snapshot("r1", "processing", Undefined, Undefined))

\* What a waitFor call started at `start` comes to when it runs alone and its
\* queries are answered by answers[k..]: t is the time of its next deadline
\* check and q the number of queries it has sent
RECURSIVE Alone(_, _, _, _, _, _, _)
Alone(t, start, every, budget, answers, k, q) ==
    IF t - start > budget THEN [outcome |-> "timeout", queries |-> q, at |-> t]
    ELSE IF k > Len(answers) THEN [outcome |-> "waiting", queries |-> q + 1, at |-> t]
    ELSE IF answers[k].kind = "rejection"
    THEN [outcome |-> "error", queries |-> q + 1, at |-> t + answers[k].d]
    ELSE IF answers[k].data.status = "completed"
    THEN [outcome |-> "completed", queries |-> q + 1, at |-> t + answers[k].d]
    ELSE IF answers[k].data.status = "failed"
    THEN [outcome |-> "failed", queries |-> q + 1, at |-> t + answers[k].d]
    ELSE Alone(t + answers[k].d + every, start, every, budget, answers, k + 1, q + 1)

\* How a call ended
OutcomeOf(call) ==
    IF call.result.kind = "return" THEN "completed"
    ELSE IF call.result.error.name = "TimeoutError" THEN "timeout"
    ELSE IF call.result.error.name = "RenderError" THEN "failed"
    ELSE "error"

\* C27: under every interleaving of concurrent waitFor calls on one client,
\* each call's outcome and number of queries are those of the same call
\* running alone with its own start time, interval and timeout against the
\* answers it received; a call in flight is where the call alone would be;
\* and a step of one call, its timeout or failure included, leaves every other
\* call as it was.
C27_ConcurrentCallsIndependent ==
    /\ [](\A c \in DOMAIN calls :
            LET call == calls[c]
                alone == Alone(call.startTime, call.startTime, call.interval,
                               call.timeout, call.answers, 1, 0)
            IN  /\ call.pc = "done" =>
                      /\ alone.outcome = OutcomeOf(call)
                      /\ alone.queries = call.queries
                      /\ call.result.kind = "return" =>
                            call.result.value = call.answers[Len(call.answers)].data
                /\ call.pc = "get" =>
                      /\ alone.outcome = "waiting"
                      /\ alone.queries = call.queries
                      /\ alone.at + call.rtt = call.due)
    /\ [][\A c \in DOMAIN calls :
            calls'[c] # calls[c] => \A o \in DOMAIN calls \ {c} : calls'[o] = calls[o]]_vars

C27_Witness ==
    /\ DOMAIN calls = Callers
    /\ calls["a"].pc = "done" /\ calls["b"].pc = "done"
    /\ calls["a"].startTime = 0 /\ calls["a"].timeout = 1000
    /\ calls["a"].result.kind = "throw"
    /\ calls["a"].result.error.name = "TimeoutError"
    /\ calls["a"].queries = 1
    /\ calls["b"].startTime = 500 /\ calls["b"].timeout = 1500
    /\ calls["b"].result.kind = "return"
    /\ calls["b"].queries = 2
    /\ now = 1500

\* C31: within one call of waitFor (or the wait of createAndWait) a status
\* query after the first is sent exactly one interval after the answer to the
\* query before it arrived, hence at least one interval after that query was
\* sent, the interval in effect being greater than 0; the call has slept once
\* per query answered.
C31_QueriesAtLeastIntervalApart ==
    [][(Polling /\ pc = "check" /\ queries >= 1 /\ queries' = queries + 1) =>
          /\ interval > 0
          /\ now = respondedAt + interval
          /\ now - (respondedAt - lastRtt) >= interval
          /\ sleeps = queries]_vars

C31_Witness ==
    /\ op = "waitFor"
    /\ pc = "get"
    /\ queries = 2
    /\ interval = 2000
    /\ lastRtt = 500
    /\ now = respondedAt + interval
    /\ now = 2500

\* C32: when a status query of a waitFor loop is answered with a render
\* object, what the loop does next depends on that object's status alone,
\* whatever was observed before: completed returns the object, failed throws
\* RenderError, and any other status, with or without image_url or
\* error_message and also after a more advanced status, goes on to the sleep
\* with no outcome.
C32_StatusAloneDecides ==
    [][(Polling /\ pc = "get" /\ queries' = queries /\ rejection' = rejection
          /\ delivered'.t = "object") =>
          /\ delivered'.status = "completed" =>
                pc' = "done" /\ result' = Returned(delivered')
          /\ delivered'.status = "failed" =>
                pc' = "done" /\ result'.kind = "throw"
                             /\ result'.error.name = "RenderError"
          /\ delivered'.status \notin {"completed", "failed"} =>
                pc' = "sleep" /\ result' = NoResult]_vars

\* A pending answer that carries an image_url, after an earlier answer that was
\* not pending, has sent the loop to its sleep.
C32_Witness ==
    /\ op = "waitFor"
    /\ pc = "sleep"
    /\ queries = 2
    /\ ~onlyPending
    /\ delivered.status = "pending"
    /\ delivered.image_url = "https://cdn/r1.png"
    /\ result = NoResult

\* The message of the RenderError of a failed render object
FailureMessage(r) ==
    IF Truthy(r.error_message) THEN r.error_message ELSE "Render failed"

\* C33 as claimed: the RenderError of waitFor has the failed render object's
\* error_message as message, "Render failed" when it has none, and the render
\* object that the failed query delivered as its details.
C33_DetailsIsSnapshot ==
    (Polling /\ Failed("RenderError")) =>
        /\ result.error.message = FailureMessage(delivered)
        /\ result.error.details = delivered

\* C33 as the code has it: the RenderError of waitFor has the failed render
\* object's error_message as message, "Render failed" when it has none, and as
\* details an object of two properties: renderId, the id waitFor was called
\* with, and render, the whole render object that the failed query delivered.
C33_DetailsHoldSnapshot ==
    (Polling /\ Failed("RenderError")) =>
        /\ delivered.status = "failed"
        /\ result.error.message = FailureMessage(delivered)
        /\ result.error.details = [t |-> "object", renderId |-> renderId,
                                   render |-> delivered]

C33_Witness ==
    /\ op = "waitFor"
    /\ Failed("RenderError")
    /\ queries = 2
    /\ delivered = Snapshot("r1", "failed", "out of memory", Undefined)
    /\ result.error.message = "out of memory"
    /\ result.error.details.render = delivered

\* The TimeoutError of waitFor's deadline check, as opposed to the one the
\* request layer makes of a request that timed out
DeadlinePassed == Polling /\ Failed("TimeoutError") /\ rejection = NoRejection

\* C34: a waitFor call polls with the interval and the timeout of its options,
\* and with 1000 ms and 60000 ms for the ones omitted; the TimeoutError of its
\* deadline check has the message "Render did not complete within <timeout>ms"
\* with the timeout in effect for the call: the option, or 60000 without one.
C34_DefaultsAndBudgetInMessage ==
    (op = "waitFor" /\ pc # "idle") =>
        /\ interval = IF args.options.interval = 0 THEN 1000 ELSE args.options.interval
        /\ timeout = IF args.options.timeout = 0 THEN 60000 ELSE args.options.timeout
        /\ DeadlinePassed =>
              result.error.message =
                  "Render did not complete within "
                      \o (IF args.options.timeout = 0 THEN "60000"
                          ELSE ToString(args.options.timeout))
                      \o "ms"

\* A call without interval and timeout has polled every 1000 ms and failed
\* after 60000 ms, naming 60000.
C34_Witness ==
    /\ op = "waitFor"
    /\ args.options = Options(Undefined, 0, 0)
    /\ DeadlinePassed
    /\ interval = 1000
    /\ now - startTime > 60000
    /\ result.error.message = "Render did not complete within 60000ms"

\* C35: a waitFor call whose deadline check threw TimeoutError had a non-empty
\* render id, has sent at least one status query and has slept at least once:
\* the first deadline check, made as the call starts, never throws.
C35_TimeoutOnlyAfterAQuery ==
    /\ DeadlinePassed => Truthy(renderId) /\ queries >= 1 /\ sleeps >= 1
    /\ (Polling /\ pc = "check" /\ queries = 0) => now - startTime <= timeout

\* The shortest timeout with the longest interval: one query, then TimeoutError.
C35_Witness ==
    /\ op = "waitFor"
    /\ DeadlinePassed
    /\ timeout = 1000
    /\ interval = 2000
    /\ queries = 1

C37_ModeResolvedOncePerCall ==
    /\ [][setModes' # setModes =>
            /\ posts' = posts
            /\ queries' = queries
            /\ pc' = pc /\ op' = op /\ args' = args
            /\ result' = result]_vars
    /\ [][posts # <<>> => posts' = posts]_vars
    /\ [][(/\ pc = "idle" /\ op' = "create" /\ posts' # posts
           /\ setModes > 0 /\ ~setModeThrew
           /\ args'.options.mode = Undefined) =>
             (posts'[1].xSync = "true" <=> setModeArg = "sync")]_vars

\* A create call without override was made in sync mode; while its POST is in
\* flight the default was set to async, and the POST still has the marker.
C37_Witness ==
    /\ op = "create"
    /\ pc = "post"
    /\ args.options.mode = Undefined
    /\ posts[1].xSync = "true"
    /\ setModes = 1
    /\ setModeArg = "async"
    /\ mode = "async"

\* C38: when every status query is answered and timers fire, a waitFor call
\* with a timeout given comes to an end whatever the statuses reported.  When
\* every answer it got was a render object, it has ended in one of four ways:
\* it returned the completed render object; it threw RenderError for a failed
\* one; its deadline check threw TimeoutError; or it threw the error of a
\* query, which is the translator's error for the rejection the query met or,
\* for an empty render id, get's own error.
C38_WaitForTerminates ==
    /\ (op = "waitFor" /\ ~Done) ~> Done
    /\ []((op = "waitFor" /\ Done /\ (queries > 0 => delivered.t = "object")) =>
            \/ result = Returned(delivered) /\ delivered.status = "completed"
            \/ Failed("RenderError") /\ delivered.status = "failed"
            \/ DeadlinePassed
            \/ rejection # NoRejection /\ result = Thrown(HandleError(rejection))
            \/ ~Truthy(renderId) /\ queries = 0
                 /\ result = Thrown(PlainError("Error", "Render ID is required")))

\* A call with the longest timeout that saw pending at every query has ended
\* with the deadline's TimeoutError.
C38_Witness ==
    /\ op = "waitFor"
    /\ DeadlinePassed
    /\ onlyPending
    /\ timeout = 1000 * MaxTimeoutSteps
    /\ interval = 1000
    /\ queries >= MaxTimeoutSteps

\* C39: when every list request is answered, a listAll call without maxResults
\* against a catalogue of n templates comes to an end; it never sends more
\* than n \div 100 + 1 requests, and when it returns it has sent exactly that
\* many, the last one answered by the first page of fewer than 100 items:
\* an empty page when n is a multiple of 100 (0 included), a page of
\* n % 100 items otherwise.
C39_ListAllRequestCount ==
    /\ (op = "listAll" /\ ~Done) ~> Done
    /\ []((op = "listAll" /\ args.maxResults = 0) =>
            /\ Len(lists) <= catalogue \div 100 + 1
            /\ (Done /\ result.kind = "return") =>
                  /\ Len(lists) = catalogue \div 100 + 1
                  /\ Len(Page(lists[Len(lists)], catalogue)) = catalogue % 100
                  /\ \A k \in 1..(Len(lists) - 1) :
                        Len(Page(lists[k], catalogue)) = 100)

\* A catalogue of 200: two full pages, then the request that finds nothing.
C39_Witness ==
    /\ op = "listAll"
    /\ Done
    /\ result.kind = "return"
    /\ args.maxResults = 0
    /\ catalogue = 200
    /\ Len(lists) = 3
    /\ Page(lists[3], catalogue) = <<>>
    /\ Len(result.value) = 200

====
